---- MODULE Spec2Model ----
(***************************************************************************)
(* A model of the data-engineering utilities of the repository:            *)
(*   - DataCleaningPipeline  (production_cleaning_pipeline.py)             *)
(*   - DataPipeline          (multi_source_pipeline.py) with APIClient     *)
(*   - the retry and rate_limit decorators                                 *)
(*   - the validators and calculators of data_utils                        *)
(*   - DataValidator         (production_validator.py)                     *)
(*                                                                         *)
(* Numbers are exact rationals [n, d] (d = 0 is NaN); text cells are       *)
(* sequences of one-character strings or None.  A DataFrame is an object   *)
(* on a heap, so that copying and in-place updates are distinguishable.    *)
(***************************************************************************)
EXTENDS Integers, Sequences, FiniteSets, TLC

VARIABLES
    \* DataCleaningPipeline
    heap,             \* DataFrame objects: reference -> table
    config,           \* DataCleaningPipeline.config
    cleaning_report,  \* DataCleaningPipeline.cleaning_report
    pc,               \* position inside DataCleaningPipeline.run
    df,               \* the local variable df of run (a reference)
    calls,            \* step invocations of the current run, with argument and result
    mark,             \* Len(cleaning_report.steps) when the current run started
    returned,         \* what each finished run gave its caller
    \* @retry(max_attempts, delay)
    r_pc,             \* position inside the retry wrapper
    attempts,         \* the wrapper's local variable attempts
    max_attempts,     \* the decorator's argument
    delay,            \* the decorator's argument
    r_events,         \* invocations of the wrapped function and sleeps, in order
    r_result,         \* what the wrapper gave its caller
    \* APIClient
    a_pc,             \* position inside APIClient._make_request
    attempt,          \* the loop variable attempt
    max_retries,      \* APIClient.max_retries
    a_events,         \* requests sent and sleeps, in order
    a_result,         \* what _make_request gave its caller
    \* DataPipeline
    p_pc,             \* position inside DataPipeline.run
    data_sources,     \* DataPipeline.data_sources: its keys in insertion order
    results,          \* DataPipeline.results: 'sources' and 's3_upload'
    p_log,            \* the stages run has called, with what each returned
    transformed,      \* the local variable transformed_data of run
    db_conn,          \* the connection fetch_database_data opened
    s3_objects,       \* the keys uploaded to S3
    saved,            \* the files save_locally wrote
    \* @rate_limit(calls_per_minute)
    calls_per_minute, \* the decorator's argument
    last_calls,       \* the closure's list of recorded timestamps
    lock,             \* the closure's Lock: 0 or the thread holding it
    clock,            \* time.time()
    t_pc,             \* each thread's position inside the wrapper
    t_now,            \* each thread's local variable now
    t_call,           \* the number of the call each thread is making
    rl_events,        \* admissions, rejections and invocations, in order
    \* data_utils.validators
    v_pc,             \* "call" before the function is applied, "done" after
    v_args,           \* the arguments
    v_result,         \* what the function returned or raised
    \* DataValidator
    validation_results, \* DataValidator.validation_results
    d_pc,             \* position inside validate_dataframe
    d_df,             \* the argument df: its rows in order
    d_row,            \* the number of rows the loop has taken
    valid_records,    \* the local list valid_records
    invalid_records,  \* the local list invalid_records
    d_calls,          \* the validate_dataframe calls so far: errors logged before, outcome
    d_result,         \* what the last finished call returned
    \* @cache_result
    cache,            \* the closure's dict: the stored (args, result) pairs
    c_calls,          \* the calls of the wrapper so far, each with what happened
    \* S3Manager
    u_pc,             \* position inside upload_dataframe
    u_call,           \* the arguments and locals of the current upload_dataframe call
    local_files,      \* the files of the working directory
    bucket,           \* the keys of the objects in the bucket
    u_calls,          \* the finished upload_dataframe calls
    \* DatabaseManager
    engine,           \* DatabaseManager.engine
    connection,       \* DatabaseManager.connection
    db_calls          \* the calls of the manager's methods so far

cleanVars == <<heap, config, cleaning_report, pc, df, calls, mark, returned>>

retryVars == <<r_pc, attempts, max_attempts, delay, r_events, r_result>>

apiVars == <<a_pc, attempt, max_retries, a_events, a_result>>

pipeVars == <<p_pc, data_sources, results, p_log, transformed, db_conn, s3_objects, saved>>

rateVars == <<calls_per_minute, last_calls, lock, clock, t_pc, t_now, t_call, rl_events>>

valVars == <<v_pc, v_args, v_result>>

dvVars == <<validation_results, d_pc, d_df, d_row, valid_records, invalid_records, d_calls,
            d_result>>

cacheVars == <<cache, c_calls>>

s3Vars == <<u_pc, u_call, local_files, bucket, u_calls>>

dbVars == <<engine, connection, db_calls>>

vars == <<cleanVars, retryVars, apiVars, pipeVars, rateVars, valVars, dvVars, cacheVars,
          s3Vars, dbVars>>

notClean == <<retryVars, apiVars, pipeVars, rateVars, valVars, dvVars,
            cacheVars, s3Vars, dbVars>>

notRetry == <<cleanVars, apiVars, pipeVars, rateVars, valVars, dvVars,
            cacheVars, s3Vars, dbVars>>

notApi == <<cleanVars, retryVars, pipeVars, rateVars, valVars, dvVars,
            cacheVars, s3Vars, dbVars>>

\* DataPipeline drives an APIClient of its own
notPipe == <<cleanVars, retryVars, rateVars, valVars, dvVars,
            cacheVars, s3Vars, dbVars>>

notRate == <<cleanVars, retryVars, apiVars, pipeVars, valVars, dvVars,
            cacheVars, s3Vars, dbVars>>

notVal == <<cleanVars, retryVars, apiVars, pipeVars, rateVars, dvVars,
            cacheVars, s3Vars, dbVars>>

notDv == <<cleanVars, retryVars, apiVars, pipeVars, rateVars, valVars,
            cacheVars, s3Vars, dbVars>>

notCache == <<cleanVars, retryVars, apiVars, pipeVars, rateVars, valVars, dvVars, s3Vars,
              dbVars>>

notS3 == <<cleanVars, retryVars, apiVars, pipeVars, rateVars, valVars, dvVars, cacheVars,
           dbVars>>

notDb == <<cleanVars, retryVars, apiVars, pipeVars, rateVars, valVars, dvVars, cacheVars,
           s3Vars>>

\* the components a specification does not exercise stay as constructed
CleanOff ==
    /\ heap = <<>>
    /\ config = <<>>
    /\ cleaning_report = <<>>
    /\ pc = "off"
    /\ df = 0
    /\ calls = <<>>
    /\ mark = 0
    /\ returned = <<>>

RetryOff ==
    /\ r_pc = "off"
    /\ attempts = 0
    /\ max_attempts = 0
    /\ delay = 0
    /\ r_events = <<>>
    /\ r_result = <<>>

ApiOff ==
    /\ a_pc = "off"
    /\ attempt = 0
    /\ max_retries = 0
    /\ a_events = <<>>
    /\ a_result = <<>>

PipeOff ==
    /\ p_pc = "off"
    /\ data_sources = <<>>
    /\ results = <<>>
    /\ p_log = <<>>
    /\ transformed = <<>>
    /\ db_conn = "none"
    /\ s3_objects = {}
    /\ saved = {}

RateOff ==
    /\ calls_per_minute = 0
    /\ last_calls = <<>>
    /\ lock = 0
    /\ clock = 0
    /\ t_pc = <<>>
    /\ t_now = <<>>
    /\ t_call = <<>>
    /\ rl_events = <<>>

ValOff ==
    /\ v_pc = "off"
    /\ v_args = <<>>
    /\ v_result = <<>>

DvOff ==
    /\ validation_results = <<>>
    /\ d_pc = "off"
    /\ d_df = <<>>
    /\ d_row = 0
    /\ valid_records = <<>>
    /\ invalid_records = <<>>
    /\ d_calls = <<>>
    /\ d_result = <<>>

CacheOff ==
    /\ cache = <<>>
    /\ c_calls = <<>>

S3Off ==
    /\ u_pc = "off"
    /\ u_call = <<>>
    /\ local_files = {}
    /\ bucket = {}
    /\ u_calls = <<>>

DbOff ==
    /\ engine = "off"
    /\ connection = "off"
    /\ db_calls = <<>>

OnlyClean == RetryOff /\ ApiOff /\ PipeOff /\ RateOff /\ ValOff /\ DvOff
    /\ CacheOff /\ S3Off /\ DbOff

OnlyRetry == CleanOff /\ ApiOff /\ PipeOff /\ RateOff /\ ValOff /\ DvOff
    /\ CacheOff /\ S3Off /\ DbOff

OnlyApi == CleanOff /\ RetryOff /\ PipeOff /\ RateOff /\ ValOff /\ DvOff
    /\ CacheOff /\ S3Off /\ DbOff

OnlyPipe == CleanOff /\ RetryOff /\ ApiOff /\ RateOff /\ ValOff /\ DvOff
    /\ CacheOff /\ S3Off /\ DbOff

OnlyRate == CleanOff /\ RetryOff /\ ApiOff /\ PipeOff /\ ValOff /\ DvOff
    /\ CacheOff /\ S3Off /\ DbOff

OnlyVal == CleanOff /\ RetryOff /\ ApiOff /\ PipeOff /\ RateOff /\ DvOff
    /\ CacheOff /\ S3Off /\ DbOff

OnlyDv == CleanOff /\ RetryOff /\ ApiOff /\ PipeOff /\ RateOff /\ ValOff
    /\ CacheOff /\ S3Off /\ DbOff

OnlyCache == CleanOff /\ RetryOff /\ ApiOff /\ PipeOff /\ RateOff /\ ValOff /\ DvOff
    /\ S3Off /\ DbOff

OnlyS3 == CleanOff /\ RetryOff /\ ApiOff /\ PipeOff /\ RateOff /\ ValOff /\ DvOff
    /\ CacheOff /\ DbOff

OnlyDb == CleanOff /\ RetryOff /\ ApiOff /\ PipeOff /\ RateOff /\ ValOff /\ DvOff
    /\ CacheOff /\ S3Off

-----------------------------------------------------------------------------
(* Bounds of the model *)

MaxRows == 2

MaxRuns == 2

MaxApplied == 2

MaxAttempts == 4

MaxRetries == 4

MaxCalls == 3

MaxTime == 92

MaxIdLen == 4

MaxPhoneDigits == 11

MaxEmailLen == 7

\* bits in the significand of the binary floating-point format of the model
\* (Python's float has 53)
Mantissa == 5

MaxList == 3

MaxFrameRows == 2

MaxValidations == 2

MaxCacheCalls == 3

MaxUploads == 2

MaxDbCalls == 3

-----------------------------------------------------------------------------
(* Exact arithmetic on the values of numeric columns *)

Abs(i) == IF i < 0 THEN -i ELSE i

RECURSIVE GCD(_, _)
GCD(a, b) == IF b = 0 THEN a ELSE GCD(b, a % b)

NaN == [n |-> 0, d |-> 0]

IsNaN(x) == x.d = 0

Rat(n, d) ==
    LET s == IF d < 0 THEN -1 ELSE 1
        g == GCD(Abs(n), Abs(d))
    IN  [n |-> (s * n) \div g, d |-> (s * d) \div g]

Num(i) == [n |-> i, d |-> 1]

\* Arithmetic propagates NaN, as for floats.
RAdd(x, y) ==
    IF IsNaN(x) \/ IsNaN(y) THEN NaN ELSE Rat(x.n * y.d + y.n * x.d, x.d * y.d)

RSub(x, y) ==
    IF IsNaN(x) \/ IsNaN(y) THEN NaN ELSE Rat(x.n * y.d - y.n * x.d, x.d * y.d)

RMul(x, y) ==
    IF IsNaN(x) \/ IsNaN(y) THEN NaN ELSE Rat(x.n * y.n, x.d * y.d)

RDivInt(x, k) == IF IsNaN(x) THEN NaN ELSE Rat(x.n, x.d * k)

\* Comparisons with NaN are false, as for floats.
RLess(x, y) == ~IsNaN(x) /\ ~IsNaN(y) /\ x.n * y.d < y.n * x.d

RLeq(x, y) == ~IsNaN(x) /\ ~IsNaN(y) /\ x.n * y.d <= y.n * x.d

-----------------------------------------------------------------------------
(* Text *)

None == [none |-> TRUE, s |-> <<>>]

Str(s) == [none |-> FALSE, s |-> s]

Ord(c) ==
    CASE c = " " -> 32
      [] c = "-" -> 45
      [] c = "1" -> 49
      [] c = "9" -> 57
      [] c = "A" -> 65
      [] c = "C" -> 67
      [] c = "N" -> 78
      [] c = "U" -> 85
      [] c = "a" -> 97
      [] c = "c" -> 99
      [] c = "e" -> 101
      [] c = "k" -> 107
      [] c = "n" -> 110
      [] c = "o" -> 111
      [] c = "u" -> 117
      [] c = "w" -> 119
      [] OTHER -> 0

IsSpace(c) == c = " "

IsDigit(c) == c \in {"1", "9"}

IsAlpha(c) == c \in {"A", "C", "N", "U", "a", "c", "e", "k", "n", "o", "u", "w"}

LowerChar(c) ==
    CASE c = "A" -> "a"
      [] c = "C" -> "c"
      [] c = "N" -> "n"
      [] c = "U" -> "u"
      [] OTHER -> c

UpperChar(c) ==
    CASE c = "a" -> "A"
      [] c = "c" -> "C"
      [] c = "n" -> "N"
      [] c = "e" -> "E"
      [] c = "o" -> "O"
      [] c = "k" -> "K"
      [] c = "u" -> "U"
      [] c = "w" -> "W"
      [] c = "s" -> "S"
      [] c = "l" -> "L"
      [] c = "t" -> "T"
      [] OTHER -> c

StrLower(s) == [i \in 1..Len(s) |-> LowerChar(s[i])]

StrUpper(s) == [i \in 1..Len(s) |-> UpperChar(s[i])]

RECURSIVE LStrip(_)
LStrip(s) == IF s # <<>> /\ IsSpace(Head(s)) THEN LStrip(Tail(s)) ELSE s

RECURSIVE RStrip(_)
RStrip(s) ==
    IF s # <<>> /\ IsSpace(s[Len(s)]) THEN RStrip(SubSeq(s, 1, Len(s) - 1)) ELSE s

StrStrip(s) == RStrip(LStrip(s))

\* str.title(): a letter is upper-cased after a non-letter, lower-cased after a letter.
StrTitle(s) ==
    [i \in 1..Len(s) |->
        IF i = 1 \/ ~IsAlpha(s[i - 1]) THEN UpperChar(s[i]) ELSE LowerChar(s[i])]

\* re.sub(r'\D', '', s)
StrDigits(s) == SelectSeq(s, IsDigit)

RECURSIVE StrLess(_, _)
StrLess(s, t) ==
    IF t = <<>> THEN FALSE
    ELSE IF s = <<>> THEN TRUE
    ELSE IF Ord(Head(s)) # Ord(Head(t)) THEN Ord(Head(s)) < Ord(Head(t))
    ELSE StrLess(Tail(s), Tail(t))

-----------------------------------------------------------------------------
(* DataFrames.  A table has one numeric column ("amount") and one text     *)
(* column whose header tname is "email", "name" or "phone".                *)

Unknown == Str(<<"U", "n", "k", "n", "o", "w", "n">>)

NumCol(t) == [i \in 1..Len(t.rows) |-> t.rows[i].num]

TxtCol(t) == [i \in 1..Len(t.rows) |-> t.rows[i].txt]

\* df.isnull().sum().sum()
MissingCount(t) ==
    Cardinality({i \in 1..Len(t.rows) : IsNaN(t.rows[i].num)})
    + Cardinality({i \in 1..Len(t.rows) : t.rows[i].txt.none})

\* the key pandas compares in duplicated(subset=...); missing cells compare equal
RowKey(row, subset) ==
    CASE subset = "all" -> <<row.num, row.txt>>
      [] subset = "num" -> <<row.num, None>>
      [] OTHER -> <<NaN, row.txt>>

\* DataFrame.duplicated(subset, keep): the rows marked as duplicates
Duplicated(t, subset, keep) ==
    LET key(i) == RowKey(t.rows[i], subset)
        n == Len(t.rows)
    IN  {i \in 1..n :
            CASE keep = "first" -> \E j \in 1..(i - 1) : key(j) = key(i)
              [] keep = "last" -> \E j \in (i + 1)..n : key(j) = key(i)
              [] OTHER -> \E j \in 1..n : j # i /\ key(j) = key(i)}

RECURSIVE KeepRows(_, _, _)
KeepRows(rows, i, drop) ==
    IF i > Len(rows) THEN <<>>
    ELSE IF i \in drop THEN KeepRows(rows, i + 1, drop)
    ELSE <<rows[i]>> \o KeepRows(rows, i + 1, drop)

\* (mutant) no row is dropped
DropNothing(t, subset, keep) == t

\* DataFrame.drop_duplicates(subset, keep): a new table
DropDuplicates(t, subset, keep) ==
    [t EXCEPT !.rows = KeepRows(t.rows, 1, Duplicated(t, subset, keep))]

\* the non-missing values of a numeric column, ascending
SortedValues(col) ==
    SortSeq(SelectSeq(col, LAMBDA x : ~IsNaN(x)), LAMBDA x, y : RLess(x, y))

RECURSIVE SumSeq(_)
SumSeq(s) == IF s = <<>> THEN Num(0) ELSE RAdd(Head(s), SumSeq(Tail(s)))

\* Series.mean(): NaN cells are skipped; NaN when nothing is left
Mean(col) ==
    LET v == SortedValues(col)
    IN  IF v = <<>> THEN NaN ELSE RDivInt(SumSeq(v), Len(v))

\* Series.quantile(q) for q = k/4, linear interpolation between order statistics
Quantile(col, k) ==
    LET v == SortedValues(col)
        n == Len(v)
        pos == (n - 1) * k
        lo == pos \div 4
        fr == pos % 4
    IN  IF n = 0 THEN NaN
        ELSE IF fr = 0 THEN v[lo + 1]
        ELSE RAdd(v[lo + 1], RMul(Rat(fr, 4), RSub(v[lo + 2], v[lo + 1])))

\* Series.median()
Median(col) == Quantile(col, 2)

\* Series.mode(): the most frequent non-missing values (a set here; pandas
\* returns them in ascending order)
Mode(col) ==
    LET vals == {col[i].s : i \in {j \in 1..Len(col) : ~col[j].none}}
        cnt(s) == Cardinality({i \in 1..Len(col) : ~col[i].none /\ col[i].s = s})
    IN  {s \in vals : \A u \in vals : cnt(u) <= cnt(s)}

\* Series.mode()[0]: the smallest of the most frequent values
ModeFirst(col) ==
    CHOOSE s \in Mode(col) : \A u \in Mode(col) : u = s \/ StrLess(s, u)

\* Series.clip(lower, upper)
Clip(x, lower, upper) ==
    IF RLess(x, lower) THEN lower ELSE IF RLess(upper, x) THEN upper ELSE x

-----------------------------------------------------------------------------
(* The heap of DataFrame objects *)

\* (mutant) the copy is forgotten: the step works on the caller's object
CopyAlias(h, r) == [heap |-> h, ref |-> r]

\* df.copy(): a new object with the same contents
Copy(h, r) == [heap |-> Append(h, h[r]), ref |-> Len(h) + 1]

\* a new object holding table t
Alloc(h, t) == [heap |-> Append(h, t), ref |-> Len(h) + 1]

\* df[col].fillna(value, inplace=True) on the numeric column of object r
FillNumInPlace(h, r, value) ==
    LET rows == h[r].rows
    IN  [h EXCEPT ![r].rows =
            [i \in 1..Len(rows) |->
                IF IsNaN(rows[i].num) THEN [rows[i] EXCEPT !.num = value] ELSE rows[i]]]

\* df[col].fillna(value, inplace=True) on the text column of object r
FillTxtInPlace(h, r, value) ==
    LET rows == h[r].rows
    IN  [h EXCEPT ![r].rows =
            [i \in 1..Len(rows) |->
                IF rows[i].txt.none THEN [rows[i] EXCEPT !.txt = value] ELSE rows[i]]]

\* df[col] = series on the numeric column of object r
SetNumCol(h, r, series) ==
    LET rows == h[r].rows
    IN  [h EXCEPT ![r].rows =
            [i \in 1..Len(rows) |-> [rows[i] EXCEPT !.num = series[i]]]]

\* df[col] = series on the text column of object r (the result has dtype object)
SetTxtCol(h, r, series) ==
    LET rows == h[r].rows
    IN  [h EXCEPT ![r].rows =
            [i \in 1..Len(rows) |-> [rows[i] EXCEPT !.txt = series[i]]],
                  ![r].tdt = "object"]

\* d[k] = v on a dict
Put(d, k, v) == [x \in DOMAIN d \cup {k} |-> IF x = k THEN v ELSE d[x]]

-----------------------------------------------------------------------------
(* DataCleaningPipeline: the steps.  Each returns the heap after the call,  *)
(* the reference it returns, the details it logs, and whether it raised.    *)

get_default_config ==
    [numeric_strategy |-> "median", categorical_strategy |-> "mode",
     subset |-> "all", keep |-> "first",
     method |-> "iqr", threshold |-> Rat(3, 2),
     lowercase_emails |-> TRUE, standardize_phones |-> TRUE,
     title_case_names |-> TRUE]

\* log_step: one more entry of cleaning_report['steps']
log_step(report, step_name, details) ==
    [report EXCEPT !.steps = Append(@, [step |-> step_name, details |-> details])]

analyze_data_quality(h, r) ==
    [total_rows |-> Len(h[r].rows),
     total_columns |-> 2,
     missing_values |-> MissingCount(h[r]),
     duplicate_rows |-> Cardinality(Duplicated(h[r], "all", "first"))]

handle_missing_values(h, r, cfg) ==
    LET c == Copy(h, r)
        rc == c.ref
        missing_before == MissingCount(c.heap[rc])
        ncol == NumCol(c.heap[rc])
        nfill == CASE cfg.numeric_strategy = "mean" -> Mean(ncol)
                   [] cfg.numeric_strategy = "median" -> Median(ncol)
                   [] OTHER -> Num(0)
        h1 == IF \E i \in 1..Len(ncol) : IsNaN(ncol[i])
              THEN FillNumInPlace(c.heap, rc, nfill)
              ELSE c.heap
        tcol == TxtCol(h1[rc])
        tfill == IF cfg.categorical_strategy = "mode" /\ Mode(tcol) # {}
                 THEN Str(ModeFirst(tcol))
                 ELSE Unknown
        h2 == IF h1[rc].tdt = "object" /\ \E i \in 1..Len(tcol) : tcol[i].none
              THEN FillTxtInPlace(h1, rc, tfill)
              ELSE h1
        missing_after == MissingCount(h2[rc])
    IN  [heap |-> h2, ref |-> rc, raised |-> FALSE,
         details |-> [before |-> missing_before, after |-> missing_after,
                      filled |-> missing_before - missing_after]]

remove_duplicates(h, r, cfg) ==
    LET rows_before == Len(h[r].rows)
        a == Alloc(h, DropDuplicates(h[r], cfg.subset, cfg.keep))
        rows_after == Len(a.heap[a.ref].rows)
    IN  [heap |-> a.heap, ref |-> a.ref, raised |-> FALSE,
         details |-> [before |-> rows_before, after |-> rows_after,
                      removed |-> rows_before - rows_after]]

\* (mutant) the quartiles themselves are the bounds: the threshold is dropped
OutlierBoundsQuartiles(t, cfg) ==
    [lower |-> Quantile(NumCol(t), 1), upper |-> Quantile(NumCol(t), 3)]

\* the bounds handle_outliers computes for the numeric column of table t
OutlierBounds(t, cfg) ==
    LET Q1 == Quantile(NumCol(t), 1)
        Q3 == Quantile(NumCol(t), 3)
        IQR == RSub(Q3, Q1)
    IN  [lower |-> RSub(Q1, RMul(cfg.threshold, IQR)),
         upper |-> RAdd(Q3, RMul(cfg.threshold, IQR))]

IsOutlier(x, b) == RLess(x, b.lower) \/ RLess(b.upper, x)

\* (mutant) only the upper bound is applied when capping
handle_outliers_upper_only(h, r, cfg) ==
    LET c == Copy(h, r)
        rc == c.ref
        col == NumCol(c.heap[rc])
        b == OutlierBounds(c.heap[rc], cfg)
        outliers_count == Cardinality({i \in 1..Len(col) : IsOutlier(col[i], b)})
        capped == cfg.method = "iqr" /\ outliers_count > 0
        clipped == [i \in 1..Len(col) |->
                       IF RLess(b.upper, col[i]) THEN b.upper ELSE col[i]]
    IN  [heap |-> IF capped THEN SetNumCol(c.heap, rc, clipped) ELSE c.heap,
         ref |-> rc, raised |-> FALSE,
         details |-> IF capped THEN [amount |-> outliers_count] ELSE <<>>]

handle_outliers(h, r, cfg) ==
    LET c == Copy(h, r)
        rc == c.ref
        col == NumCol(c.heap[rc])
        b == OutlierBounds(c.heap[rc], cfg)
        outliers_count == Cardinality({i \in 1..Len(col) : IsOutlier(col[i], b)})
        capped == cfg.method = "iqr" /\ outliers_count > 0
        clipped == [i \in 1..Len(col) |-> Clip(col[i], b.lower, b.upper)]
    IN  [heap |-> IF capped THEN SetNumCol(c.heap, rc, clipped) ELSE c.heap,
         ref |-> rc, raised |-> FALSE,
         details |-> IF capped THEN [amount |-> outliers_count] ELSE <<>>]

\* .str.lower().str.strip(): missing cells stay missing
CleanEmail(x) == IF x.none THEN x ELSE Str(StrStrip(StrLower(x.s)))

\* .str.strip().str.title(): missing cells stay missing
CleanName(x) == IF x.none THEN x ELSE Str(StrTitle(StrStrip(x.s)))

\* .astype(str).str.replace(r'\D', ''): a missing cell becomes the text 'None'
CleanPhone(x) == Str(StrDigits(IF x.none THEN <<"N", "o", "n", "e">> ELSE x.s))

clean_text_data(h, r, cfg) ==
    LET c == Copy(h, r)
        rc == c.ref
        tname == c.heap[rc].tname
        n == Len(c.heap[rc].rows)
        h1 == IF tname = "email" /\ cfg.lowercase_emails
              THEN SetTxtCol(c.heap, rc,
                             [i \in 1..n |-> CleanEmail(TxtCol(c.heap[rc])[i])])
              ELSE c.heap
        h2 == IF tname = "name" /\ cfg.title_case_names
              THEN SetTxtCol(h1, rc, [i \in 1..n |-> CleanName(TxtCol(h1[rc])[i])])
              ELSE h1
        h3 == IF tname = "phone" /\ cfg.standardize_phones
              THEN SetTxtCol(h2, rc, [i \in 1..n |-> CleanPhone(TxtCol(h2[rc])[i])])
              ELSE h2
    IN  [heap |-> h3, ref |-> rc, raised |-> FALSE,
         details |-> [email_cols |-> IF tname = "email" THEN <<tname>> ELSE <<>>,
                      name_cols |-> IF tname = "name" THEN <<tname>> ELSE <<>>,
                      phone_cols |-> IF tname = "phone" THEN <<tname>> ELSE <<>>]]

\* Series.nunique(): distinct non-missing values
NUnique(col) == Cardinality({col[i].s : i \in {j \in 1..Len(col) : ~col[j].none}})

optimize_data_types(h, r, cfg) ==
    LET c == Copy(h, r)
        rc == c.ref
        h1 == IF c.heap[rc].ndt = "float64"
              THEN [c.heap EXCEPT ![rc].ndt = "float32"] ELSE c.heap
        isObject == h1[rc].tdt = "object"
        num_unique == NUnique(TxtCol(h1[rc]))
        num_total == Len(h1[rc].rows)
        \* num_unique / num_total raises ZeroDivisionError on a table without rows
        raises == isObject /\ num_total = 0
        h2 == IF isObject /\ num_total > 0 /\ 2 * num_unique < num_total
              THEN [h1 EXCEPT ![rc].tdt = "category"] ELSE h1
    IN  IF raises
        THEN [heap |-> h1, ref |-> 0, raised |-> TRUE, details |-> <<>>]
        ELSE [heap |-> h2, ref |-> rc, raised |-> FALSE,
              details |-> [savings_percent |-> "unmodelled"]]

\* generate_report: the final statistics it stores
generate_report(h, df_original, df_cleaned) ==
    [total_rows |-> Len(h[df_cleaned].rows),
     total_columns |-> 2,
     missing_values |-> MissingCount(h[df_cleaned]),
     duplicate_rows |-> Cardinality(Duplicated(h[df_cleaned], "all", "first"))]

-----------------------------------------------------------------------------
(* Inputs *)

NumVals == {NaN, Num(1), Num(9)}

TxtVals == {None, Str(<<"a", "9">>), Str(<<" ", "A", "9">>)}

RowVals == [num : NumVals, txt : TxtVals]

TNames == {"email", "name", "phone"}

RowSeqs == UNION {[1..n -> RowVals] : n \in 0..MaxRows}

\* longer tables: duplicates that alternate, an outlier above, an outlier
\* below, missing cells among duplicates
SampleRows ==
    LET a == Str(<<"a", "9">>)
        b == Str(<<" ", "A", "9">>)
        row(n, t) == [num |-> n, txt |-> t]
    IN  {<<row(Num(1), a), row(Num(9), b), row(Num(1), a), row(Num(9), b)>>,
         <<row(Num(1), a), row(Num(1), a), row(Num(1), b), row(Num(9), a)>>,
         <<row(Num(9), a), row(Num(9), a), row(Num(9), b), row(Num(1), a)>>,
         <<row(NaN, None), row(Num(1), a), row(NaN, None), row(Num(9), a),
           row(Num(1), None)>>}

Tables ==
    [rows : RowSeqs \cup SampleRows, tname : TNames, ndt : {"float64"}, tdt : {"object"}]

\* a configuration with the other documented strategies
MeanLastConfig ==
    [get_default_config EXCEPT !.numeric_strategy = "mean",
                               !.categorical_strategy = "constant",
                               !.subset = "num", !.keep = "last",
                               !.threshold = Rat(1, 4)]

\* a configuration that keeps no duplicate, has no IQR capping and no text cleaning
ZeroNoneConfig ==
    [get_default_config EXCEPT !.numeric_strategy = "zero",
                               !.keep = "none", !.method = "zscore",
                               !.lowercase_emails = FALSE,
                               !.standardize_phones = FALSE,
                               !.title_case_names = FALSE]

Configs == {get_default_config, MeanLastConfig, ZeroNoneConfig}

\* DataCleaningPipeline.__init__, and the caller's table as object 1
InitClean ==
    /\ \E t \in Tables : heap = <<t>>
    /\ config \in Configs
    /\ cleaning_report = [steps |-> <<>>, statistics |-> <<>>]
    /\ df = 1
    /\ calls = <<>>
    /\ mark = 0
    /\ returned = <<>>

-----------------------------------------------------------------------------
(* DataCleaningPipeline.run, one action per statement of its body *)

CallEntry(step, arg, res, h) ==
    [step |-> step, arg |-> arg, argval |-> h[arg], ret |-> res.ref,
     objects |-> Len(h), raised |-> res.raised]

\* pipeline.run(df) is called with the caller's table
Run_call ==
    /\ pc = "idle"
    /\ Len(returned) < MaxRuns
    /\ pc' = "analyze"
    /\ df' = 1
    /\ calls' = <<>>
    /\ mark' = Len(cleaning_report.steps)
    /\ UNCHANGED <<heap, config, cleaning_report, returned>>
    /\ UNCHANGED notClean

\* self.analyze_data_quality(df)
Run_analyze_data_quality ==
    /\ pc = "analyze"
    /\ LET stats == analyze_data_quality(heap, df)
       IN  cleaning_report' =
               log_step([cleaning_report EXCEPT
                            !.statistics = Put(@, "initial", stats)],
                        "analyze_quality", stats)
    /\ calls' = Append(calls, CallEntry("analyze_data_quality", df,
                                        [ref |-> 0, raised |-> FALSE], heap))
    /\ pc' = "missing"
    /\ UNCHANGED <<heap, config, df, mark, returned>>
    /\ UNCHANGED notClean

\* df = self.<step>(df): the step runs, logs, and run rebinds df to its result;
\* an exception leaves run at once
RunStep(at, next, step, logname, res) ==
    /\ pc = at
    /\ heap' = res.heap
    /\ calls' = Append(calls, CallEntry(step, df, res, heap))
    /\ IF res.raised
       THEN /\ pc' = "idle"
            /\ returned' = Append(returned, [raised |-> TRUE, ref |-> 0,
                                             report |-> cleaning_report])
            /\ UNCHANGED <<cleaning_report, df>>
       ELSE /\ pc' = next
            /\ df' = res.ref
            /\ cleaning_report' = log_step(cleaning_report, logname, res.details)
            /\ UNCHANGED returned
    /\ UNCHANGED <<config, mark>>
    /\ UNCHANGED notClean

Run_handle_missing_values ==
    RunStep("missing", "duplicates", "handle_missing_values", "handle_missing",
            handle_missing_values(heap, df, config))

Run_remove_duplicates ==
    RunStep("duplicates", "outliers", "remove_duplicates", "remove_duplicates",
            remove_duplicates(heap, df, config))

Run_handle_outliers ==
    RunStep("outliers", "text", "handle_outliers", "handle_outliers",
            handle_outliers(heap, df, config))

Run_clean_text_data ==
    RunStep("text", "optimize", "clean_text_data", "clean_text",
            clean_text_data(heap, df, config))

Run_optimize_data_types ==
    RunStep("optimize", "report", "optimize_data_types", "optimize_types",
            optimize_data_types(heap, df, config))

\* report = self.generate_report(df, df); return df, report
Run_generate_report ==
    /\ pc = "report"
    /\ cleaning_report' =
           [cleaning_report EXCEPT
               !.statistics = Put(@, "final", generate_report(heap, df, df))]
    /\ calls' = Append(calls, CallEntry("generate_report", df,
                                        [ref |-> 0, raised |-> FALSE], heap))
    /\ returned' = Append(returned, [raised |-> FALSE, ref |-> df,
                                     report |-> cleaning_report'])
    /\ pc' = "idle"
    /\ UNCHANGED <<heap, config, df, mark>>
    /\ UNCHANGED notClean

NextRun ==
    \/ Run_call
    \/ Run_analyze_data_quality
    \/ Run_handle_missing_values
    \/ Run_remove_duplicates
    \/ Run_handle_outliers
    \/ Run_clean_text_data
    \/ Run_optimize_data_types
    \/ Run_generate_report

InitRun == InitClean /\ pc = "idle" /\ OnlyClean

SpecRun == InitRun /\ [][NextRun]_vars

-----------------------------------------------------------------------------
(* The cleaning steps called directly, in any order, on one pipeline.       *)
(* optimize_data_types, the pipeline's last step, ends a sequence.          *)

StepNames == <<"handle_missing_values", "remove_duplicates", "handle_outliers",
               "clean_text_data", "optimize_data_types">>

FourSteps == {StepNames[i] : i \in 1..4}

Applied == {calls[i].step : i \in 1..Len(calls)}

ApplyStep(step, logname, res) ==
    /\ pc = "free"
    /\ Len(calls) < MaxApplied
    /\ "optimize_data_types" \notin Applied
    /\ heap' = res.heap
    /\ calls' = Append(calls, CallEntry(step, df, res, heap))
    /\ IF res.raised
       THEN /\ pc' = "raised"
            /\ UNCHANGED <<cleaning_report, df>>
       ELSE /\ pc' = "free"
            /\ df' = res.ref
            /\ cleaning_report' = log_step(cleaning_report, logname, res.details)
    /\ UNCHANGED <<config, mark, returned>>
    /\ UNCHANGED notClean

Apply_handle_missing_values ==
    ApplyStep("handle_missing_values", "handle_missing",
              handle_missing_values(heap, df, config))

Apply_remove_duplicates ==
    ApplyStep("remove_duplicates", "remove_duplicates",
              remove_duplicates(heap, df, config))

Apply_handle_outliers ==
    ApplyStep("handle_outliers", "handle_outliers",
              handle_outliers(heap, df, config))

Apply_clean_text_data ==
    ApplyStep("clean_text_data", "clean_text",
              clean_text_data(heap, df, config))

Apply_optimize_data_types ==
    ApplyStep("optimize_data_types", "optimize_types",
              optimize_data_types(heap, df, config))

NextSteps ==
    \/ Apply_handle_missing_values
    \/ Apply_remove_duplicates
    \/ Apply_handle_outliers
    \/ Apply_clean_text_data
    \/ Apply_optimize_data_types

InitSteps == InitClean /\ pc = "free" /\ OnlyClean

SpecSteps == InitSteps /\ [][NextSteps]_vars

-----------------------------------------------------------------------------
(* Claims about DataCleaningPipeline *)

RunOrder ==
    <<"analyze_data_quality", "handle_missing_values", "remove_duplicates",
      "handle_outliers", "clean_text_data", "optimize_data_types",
      "generate_report">>

LoggedOrder ==
    <<"analyze_quality", "handle_missing", "remove_duplicates",
      "handle_outliers", "clean_text", "optimize_types">>

\* the entries the current run has appended to cleaning_report['steps']
LoggedThisRun ==
    [i \in 1..(Len(cleaning_report.steps) - mark) |->
        cleaning_report.steps[mark + i].step]

IsPrefix(s, t) == Len(s) <= Len(t) /\ \A i \in 1..Len(s) : s[i] = t[i]

RunFinished == pc = "idle" /\ returned # <<>>

\* C1: run executes every step once, in the fixed order, and ends with
\* generate_report: while it runs, the invoked steps and the logged entries are
\* prefixes of the fixed order and each step receives the table returned by the
\* step before it; when it has finished, all seven steps were invoked, all six
\* entries were logged, and run returned (no exception left it).
C1_RunExecutesAllStepsInOrder ==
    /\ IsPrefix([i \in 1..Len(calls) |-> calls[i].step], RunOrder)
    /\ IsPrefix(LoggedThisRun, LoggedOrder)
    /\ \A i \in 2..Len(calls) :
           calls[i].arg = IF i = 2 THEN calls[1].arg ELSE calls[i - 1].ret
    /\ RunFinished =>
           /\ ~returned[Len(returned)].raised
           /\ Len(calls) = 7
           /\ LoggedThisRun = LoggedOrder

\* C4: run is stateless across invocations: every call that returns, on the
\* same table, returns the same table and the same report as the first did.
C4_RunIsStateless ==
    \A i, j \in 1..Len(returned) :
        (~returned[i].raised /\ ~returned[j].raised) =>
            /\ returned[i].report = returned[j].report
            /\ heap[returned[i].ref] = heap[returned[j].ref]

\* C2: a cleaning step leaves the table passed to it unchanged and returns a
\* new table: the argument of every call still has the value it had at the
\* call, and the result is an object that did not exist before the call.
C2_StepLeavesInputUnchanged ==
    \A k \in 1..Len(calls) :
        /\ heap[calls[k].arg] = calls[k].argval
        /\ ~calls[k].raised => calls[k].ret > calls[k].objects

\* a step filled, dropped, capped or cleaned something of its argument
C2_Witness ==
    /\ Len(calls) = MaxApplied
    /\ \A k \in 1..Len(calls) :
           /\ ~calls[k].raised
           /\ heap[calls[k].ret].rows # calls[k].argval.rows
    /\ calls[1].step = "handle_missing_values"

\* the step named `step` applied to object r
StepOp(step, h, r, cfg) ==
    CASE step = "handle_missing_values" -> handle_missing_values(h, r, cfg)
      [] step = "remove_duplicates" -> remove_duplicates(h, r, cfg)
      [] step = "handle_outliers" -> handle_outliers(h, r, cfg)
      [] step = "clean_text_data" -> clean_text_data(h, r, cfg)
      [] OTHER -> optimize_data_types(h, r, cfg)

RECURSIVE ApplySeq(_, _, _, _)
\* the table left by the steps of `order` applied one after the other
ApplySeq(order, h, r, cfg) ==
    IF order = <<>> THEN h[r]
    ELSE LET res == StepOp(Head(order), h, r, cfg)
         IN  ApplySeq(Tail(order), res.heap, res.ref, cfg)

Orders(S) ==
    {o \in [1..Cardinality(S) -> S] : \A a, b \in DOMAIN o : a # b => o[a] # o[b]}

\* C3: the steps are order-insensitive: two steps applied in one order leave
\* the table that the other order leaves, and all orders of the four steps
\* leave the same table.
C3_StepsOrderInsensitive ==
    (pc = "free" /\ Len(calls) = 2 /\ Applied \subseteq FourSteps) =>
        /\ heap[df] = ApplySeq(<<calls[2].step, calls[1].step>>,
                               <<calls[1].argval>>, 1, config)
        /\ \A o \in Orders(FourSteps) :
               ApplySeq(o, <<calls[1].argval>>, 1, config)
                   = ApplySeq(SubSeq(StepNames, 1, 4), <<calls[1].argval>>, 1, config)

\* the table with the numeric column capped by the bounds of t and the text
\* column cleaned as its header asks
CappedAndCleaned(t, cfg) ==
    LET b == OutlierBounds(t, cfg)
        num(x) == IF cfg.method = "iqr" THEN Clip(x, b.lower, b.upper) ELSE x
        txt(x) == CASE t.tname = "email" /\ cfg.lowercase_emails -> CleanEmail(x)
                    [] t.tname = "name" /\ cfg.title_case_names -> CleanName(x)
                    [] t.tname = "phone" /\ cfg.standardize_phones -> CleanPhone(x)
                    [] OTHER -> x
    IN  [t EXCEPT !.rows = [i \in 1..Len(t.rows) |->
                               [num |-> num(t.rows[i].num), txt |-> txt(t.rows[i].txt)]]]

OutliersAndTextApplied ==
    /\ pc = "free"
    /\ Len(calls) = 2
    /\ Applied = {"handle_outliers", "clean_text_data"}

\* C3 (amended): handle_outliers and clean_text_data commute: applied in either
\* order they leave the same table, the input with its numeric column capped by
\* the input's own bounds and its text column cleaned.
C3_OutliersAndTextCommute ==
    OutliersAndTextApplied => heap[df] = CappedAndCleaned(calls[1].argval, config)

\* text cleaned first, outliers capped second, and both changed the table
C3_Witness ==
    /\ OutliersAndTextApplied
    /\ calls[1].step = "clean_text_data"
    /\ TxtCol(heap[calls[1].ret]) # TxtCol(calls[1].argval)
    /\ NumCol(heap[calls[2].ret]) # NumCol(calls[2].argval)

-----------------------------------------------------------------------------
(* The retry decorator *)

Delays == {0, 1, 2}

\* while attempts < max_attempts
RetryLoopTest(a, n) == a < n

\* (mutant) the test lets one attempt too many pass
RetryExhaustedLate(a, n) == a > n

\* if attempts >= max_attempts: raise
RetryExhausted(a, n) == a >= n

Invocations(ev) == Len(SelectSeq(ev, LAMBDA e : e.kind = "invoke"))

InvokeEvent(ev, ok) ==
    [kind |-> "invoke", ok |-> ok, k |-> Invocations(ev) + 1, secs |-> 0]

SleepEvent(secs) == [kind |-> "sleep", ok |-> FALSE, k |-> 0, secs |-> secs]

\* @retry(max_attempts=n, delay=d) applied to a function
InitRetry ==
    /\ r_pc = "idle"
    /\ attempts = 0
    /\ max_attempts \in 0..MaxAttempts
    /\ delay \in Delays
    /\ r_events = <<>>
    /\ r_result = [kind |-> "pending", k |-> 0]

\* the wrapper is called: attempts = 0
Retry_call ==
    /\ r_pc = "idle"
    /\ r_pc' = "loop"
    /\ attempts' = 0
    /\ UNCHANGED <<max_attempts, delay, r_events, r_result>>
    /\ UNCHANGED notRetry

\* return func(*args, **kwargs): the invocation returns
Retry_invoke_returns ==
    /\ r_pc = "loop"
    /\ RetryLoopTest(attempts, max_attempts)
    /\ r_events' = Append(r_events, InvokeEvent(r_events, TRUE))
    /\ r_result' = [kind |-> "value", k |-> Invocations(r_events) + 1]
    /\ r_pc' = "returned"
    /\ UNCHANGED <<attempts, max_attempts, delay>>
    /\ UNCHANGED notRetry

\* the invocation raises: attempts += 1, then re-raise or go on to sleep
Retry_invoke_raises ==
    /\ r_pc = "loop"
    /\ RetryLoopTest(attempts, max_attempts)
    /\ r_events' = Append(r_events, InvokeEvent(r_events, FALSE))
    /\ attempts' = attempts + 1
    /\ IF RetryExhausted(attempts', max_attempts)
       THEN /\ r_pc' = "raised"
            /\ r_result' = [kind |-> "exception", k |-> Invocations(r_events) + 1]
       ELSE /\ r_pc' = "sleep"
            /\ UNCHANGED r_result
    /\ UNCHANGED <<max_attempts, delay>>
    /\ UNCHANGED notRetry

\* time.sleep(delay)
Retry_sleep ==
    /\ r_pc = "sleep"
    /\ r_events' = Append(r_events, SleepEvent(delay))
    /\ r_pc' = "loop"
    /\ UNCHANGED <<attempts, max_attempts, delay, r_result>>
    /\ UNCHANGED notRetry

\* the while loop ends without a return: the wrapper returns None
Retry_loop_ends ==
    /\ r_pc = "loop"
    /\ ~RetryLoopTest(attempts, max_attempts)
    /\ r_pc' = "returned"
    /\ r_result' = [kind |-> "none", k |-> 0]
    /\ UNCHANGED <<attempts, max_attempts, delay, r_events>>
    /\ UNCHANGED notRetry

NextRetry ==
    \/ Retry_call
    \/ Retry_invoke_returns
    \/ Retry_invoke_raises
    \/ Retry_sleep
    \/ Retry_loop_ends

StartRetry == InitRetry /\ OnlyRetry

SpecRetry == StartRetry /\ [][NextRetry]_vars

RetryEnded == r_pc \in {"returned", "raised"}

\* C6: with max_attempts = n >= 1 the function is invoked at most n times; an
\* invocation that returns is the last event and its value is the wrapper's
\* result; a failed invocation other than the n-th is followed by a sleep of
\* delay and then by the next invocation; the n-th failed invocation is the last
\* event (no sleep follows) and its exception is re-raised.
C6_RetryAtMostNAttempts ==
    max_attempts >= 1 =>
        /\ Invocations(r_events) <= max_attempts
        /\ \A i \in 1..Len(r_events) :
               LET e == r_events[i]
                   last == i = Len(r_events)
               IN  /\ (e.kind = "invoke" /\ e.ok) =>
                          /\ last
                          /\ r_pc = "returned"
                          /\ r_result = [kind |-> "value", k |-> e.k]
                   /\ (e.kind = "invoke" /\ ~e.ok /\ e.k < max_attempts) =>
                          /\ ~last => r_events[i + 1] = SleepEvent(delay)
                          /\ i + 2 <= Len(r_events) =>
                                 /\ r_events[i + 2].kind = "invoke"
                                 /\ r_events[i + 2].k = e.k + 1
                          /\ RetryEnded => i + 2 <= Len(r_events)
                   /\ (e.kind = "invoke" /\ ~e.ok /\ e.k >= max_attempts) =>
                          /\ last
                          /\ e.k = max_attempts
                          /\ r_pc = "raised"
                          /\ r_result = [kind |-> "exception", k |-> e.k]
                   /\ e.kind = "sleep" =>
                          /\ i > 1
                          /\ r_events[i - 1].kind = "invoke"
                          /\ ~r_events[i - 1].ok
        /\ RetryEnded => r_events # <<>> /\ r_events[Len(r_events)].kind = "invoke"

\* every attempt failed and the last exception reached the caller
C6_Witness ==
    /\ r_pc = "raised"
    /\ max_attempts = MaxAttempts
    /\ Invocations(r_events) = max_attempts
    /\ Len(r_events) = 2 * max_attempts - 1

-----------------------------------------------------------------------------
(* APIClient._make_request *)

DefaultMaxRetries == 3

Outcomes == {"json", "text", "Timeout", "HTTPError", "ConnectionError"}

\* the non-HTTP request errors, which are retried
Retryable == {"Timeout", "ConnectionError"}

RECURSIVE Pow2(_)
Pow2(k) == IF k <= 0 THEN 1 ELSE 2 * Pow2(k - 1)

\* (mutant) the backoff starts at one second
BackoffFromOne(k) == Pow2(k - 1)

\* time.sleep(2 ** attempt)
Backoff(k) == Pow2(k)

Requests(ev) == Len(SelectSeq(ev, LAMBDA e : e.kind = "request"))

RequestEvent(k, outcome) == [kind |-> "request", k |-> k, outcome |-> outcome, secs |-> 0]

BackoffEvent(secs) == [kind |-> "sleep", k |-> 0, outcome |-> "", secs |-> secs]

\* APIClient(base_url, max_retries=m)
InitApi ==
    /\ a_pc = "idle"
    /\ attempt = 0
    /\ max_retries \in 0..MaxRetries
    /\ a_events = <<>>
    /\ a_result = [kind |-> "pending", k |-> 0]

\* _make_request is entered: for attempt in range(1, max_retries + 1)
Api_call ==
    /\ a_pc = "idle"
    /\ a_pc' = "loop"
    /\ attempt' = 1
    /\ UNCHANGED <<max_retries, a_events, a_result>>
    /\ UNCHANGED notApi

\* (mutant) an HTTP error status is retried like the other request errors
RaisedOnLastAttempt(outcome, k, m) == k = m

\* the handlers' raise: always for HTTPError, on the last attempt for the others
RaisedAtOnce(outcome, k, m) == outcome = "HTTPError" \/ k = m

\* one iteration of the loop: the request is sent and its outcome handled
MakeRequest(outcome) ==
    /\ a_pc = "loop"
    /\ attempt <= max_retries
    /\ a_events' = Append(a_events, RequestEvent(attempt, outcome))
    /\ CASE outcome \in {"json", "text"} ->
                /\ a_pc' = "returned"
                /\ a_result' = [kind |-> outcome, k |-> attempt]
         [] OTHER ->
                IF RaisedAtOnce(outcome, attempt, max_retries)
                THEN /\ a_pc' = "raised"
                     /\ a_result' = [kind |-> outcome, k |-> attempt]
                ELSE /\ a_pc' = "sleep"
                     /\ UNCHANGED a_result
    /\ UNCHANGED <<attempt, max_retries>>

Api_request ==
    /\ \E outcome \in Outcomes : MakeRequest(outcome)
    /\ UNCHANGED notApi

\* time.sleep(2 ** attempt), then the next iteration
MakeSleep ==
    /\ a_pc = "sleep"
    /\ a_events' = Append(a_events, BackoffEvent(Backoff(attempt)))
    /\ attempt' = attempt + 1
    /\ a_pc' = "loop"
    /\ UNCHANGED <<max_retries, a_result>>

Api_sleep == MakeSleep /\ UNCHANGED notApi

\* range(1, max_retries + 1) is exhausted: the function ends and returns None
Api_loop_ends ==
    /\ a_pc = "loop"
    /\ attempt > max_retries
    /\ a_pc' = "returned"
    /\ a_result' = [kind |-> "none", k |-> 0]
    /\ UNCHANGED <<attempt, max_retries, a_events>>
    /\ UNCHANGED notApi

NextApi ==
    \/ Api_call
    \/ Api_request
    \/ Api_sleep
    \/ Api_loop_ends

StartApi == InitApi /\ OnlyApi

SpecApi == StartApi /\ [][NextApi]_vars

ApiEnded == a_pc \in {"returned", "raised"}

\* C7: at most max_retries requests are sent; request k that fails with a
\* timeout or another non-HTTP request error is followed, when k < max_retries,
\* by a wait of 2^k seconds and then by request k + 1, and when k = max_retries
\* by nothing: its error is raised; a successful response is the last event and
\* its parsed body is returned.
C7_ExponentialBackoff ==
    /\ Requests(a_events) <= max_retries
    /\ \A i \in 1..Len(a_events) :
           LET e == a_events[i]
               last == i = Len(a_events)
           IN  /\ (e.kind = "request" /\ e.outcome \in Retryable /\ e.k < max_retries) =>
                      /\ ~last => a_events[i + 1] = BackoffEvent(Pow2(e.k))
                      /\ i + 2 <= Len(a_events) =>
                             /\ a_events[i + 2].kind = "request"
                             /\ a_events[i + 2].k = e.k + 1
                      /\ ApiEnded => i + 2 <= Len(a_events)
               /\ (e.kind = "request" /\ e.outcome \in Retryable /\ e.k >= max_retries) =>
                      /\ last
                      /\ e.k = max_retries
                      /\ a_pc = "raised"
                      /\ a_result = [kind |-> e.outcome, k |-> e.k]
               /\ (e.kind = "request" /\ e.outcome \in {"json", "text"}) =>
                      /\ last
                      /\ a_pc = "returned"
                      /\ a_result = [kind |-> e.outcome, k |-> e.k]
               /\ e.kind = "sleep" =>
                      /\ i > 1
                      /\ a_events[i - 1].kind = "request"
                      /\ a_events[i - 1].outcome \in Retryable

\* two failed requests with waits of 2 and 4 seconds, then a response
C7_Witness ==
    /\ a_pc = "returned"
    /\ Requests(a_events) = 3
    /\ a_events[2] = BackoffEvent(2)
    /\ a_events[4] = BackoffEvent(4)
    /\ a_result.kind = "json"

-----------------------------------------------------------------------------
(* DataPipeline *)

\* what the library calls of the stages raise; every one derives from Exception
ExceptionSubclasses ==
    {"Timeout", "ConnectionError", "HTTPError", "TypeError", "KeyError",
     "AttributeError", "Exception", "DatabaseError", "ParserError",
     "MemoryError", "BotoCoreError", "OSError"}

\* (mutant) handlers that catch ValueError only
CatchesValueError(exc) == exc \in {"ValueError"}

\* except Exception as e
Catches(exc) == exc \in ExceptionSubclasses

Absent == [status |-> "absent", error |-> ""]

Success == [status |-> "success", error |-> ""]

\* {'status': 'failed', 'error': str(e)}
Failed(exc) == [status |-> "failed", error |-> exc]

StageEntry(stage, ret, exc) == [stage |-> stage, ret |-> ret, exc |-> exc]

\* a stage left by an exception that no handler of the stage caught
Propagates(stage, exc) ==
    /\ p_log' = Append(p_log, StageEntry(stage, "raised", exc))
    /\ p_pc' = "crashed"
    /\ UNCHANGED <<data_sources, results, transformed, s3_objects, saved>>

\* DataPipeline(config)
InitPipe ==
    /\ p_pc = "idle"
    /\ data_sources = <<>>
    /\ results = [api |-> Absent, database |-> Absent, files |-> Absent,
                  s3_upload |-> Absent]
    /\ p_log = <<>>
    /\ transformed = [none |-> TRUE, keys |-> <<>>]
    /\ db_conn = "none"
    /\ s3_objects = {}
    /\ saved = {}

\* run calls fetch_api_data, which creates APIClient(base_url) and calls get
DataPipeline_run ==
    /\ p_pc = "idle"
    /\ p_pc' = "fetch_api_data"
    /\ a_pc' = "loop"
    /\ attempt' = 1
    /\ max_retries' = DefaultMaxRetries
    /\ a_events' = <<>>
    /\ a_result' = [kind |-> "pending", k |-> 0]
    /\ UNCHANGED <<data_sources, results, p_log, transformed, db_conn, s3_objects, saved>>
    /\ UNCHANGED notPipe

\* inside api_client.get: one request of _make_request
Pipe_api_request ==
    /\ p_pc = "fetch_api_data"
    /\ \E outcome \in Outcomes : MakeRequest(outcome)
    /\ UNCHANGED <<pipeVars, notPipe>>

\* inside api_client.get: the backoff of _make_request
Pipe_api_sleep ==
    /\ p_pc = "fetch_api_data"
    /\ MakeSleep
    /\ UNCHANGED <<pipeVars, notPipe>>

\* the exception met while the response body is turned into df_crypto
CryptoFrameError(body, shape) ==
    CASE body = "none" -> "AttributeError"
      [] body = "text" -> "TypeError"
      [] body = "json" /\ shape = "other" -> "KeyError"
      [] OTHER -> ""

\* api_client.get has returned or raised: the rest of fetch_api_data
fetch_api_data ==
    /\ p_pc = "fetch_api_data"
    /\ a_pc \in {"returned", "raised"}
    /\ \E shape \in {"prices", "other"} :
           LET exc == IF a_pc = "raised" THEN a_result.kind
                      ELSE CryptoFrameError(a_result.kind, shape)
           IN  IF exc = ""
               THEN /\ data_sources' = Append(data_sources, "api_crypto")
                    /\ results' = [results EXCEPT !.api = Success]
                    /\ p_log' = Append(p_log, StageEntry("fetch_api_data", "DataFrame", ""))
                    /\ p_pc' = "fetch_database_data"
                    /\ UNCHANGED <<transformed, s3_objects, saved>>
               ELSE IF Catches(exc)
               THEN /\ results' = [results EXCEPT !.api = Failed(exc)]
                    /\ p_log' = Append(p_log, StageEntry("fetch_api_data", "None", exc))
                    /\ p_pc' = "fetch_database_data"
                    /\ UNCHANGED <<data_sources, transformed, s3_objects, saved>>
               ELSE Propagates("fetch_api_data", exc)
    /\ UNCHANGED db_conn
    /\ UNCHANGED <<apiVars, notPipe>>

fetch_database_data ==
    /\ p_pc = "fetch_database_data"
    /\ \E outcome \in {"ok", "connect_failed", "query_failed"} :
           LET exc == CASE outcome = "connect_failed" -> "Exception"
                        [] outcome = "query_failed" -> "DatabaseError"
                        [] OTHER -> ""
           IN  /\ db_conn' = CASE outcome = "connect_failed" -> "none"
                               [] outcome = "query_failed" -> "open"
                               [] OTHER -> "closed"
               /\ IF exc = ""
                  THEN /\ data_sources' = Append(data_sources, "database_orders")
                       /\ results' = [results EXCEPT !.database = Success]
                       /\ p_log' = Append(p_log,
                                      StageEntry("fetch_database_data", "DataFrame", ""))
                       /\ p_pc' = "read_file_data"
                       /\ UNCHANGED <<transformed, s3_objects, saved>>
                  ELSE IF Catches(exc)
                  THEN /\ results' = [results EXCEPT !.database = Failed(exc)]
                       /\ p_log' = Append(p_log,
                                      StageEntry("fetch_database_data", "None", exc))
                       /\ p_pc' = "read_file_data"
                       /\ UNCHANGED <<data_sources, transformed, s3_objects, saved>>
                  ELSE Propagates("fetch_database_data", exc)
    /\ UNCHANGED <<apiVars, notPipe>>

FileKeys == <<"file_csv", "file_json", "file_excel">>

\* the files are read in turn until one read raises: the keys added to
\* data_sources before that, and the exception
ReadFiles(outs) ==
    LET errs == {i \in 1..3 : outs[i] = "error"}
        stop == IF errs = {} THEN 4 ELSE CHOOSE i \in errs : \A j \in errs : i <= j
        RECURSIVE Added(_)
        Added(i) == IF i >= stop THEN <<>>
                    ELSE (IF outs[i] = "ok" THEN <<FileKeys[i]>> ELSE <<>>) \o Added(i + 1)
    IN  [keys |-> Added(1), exc |-> IF stop <= 3 THEN "ParserError" ELSE ""]

read_file_data ==
    /\ p_pc = "read_file_data"
    /\ \E outs \in [1..3 -> {"absent", "ok", "error"}] :
           LET r == ReadFiles(outs)
               keys == data_sources \o r.keys
           IN  IF r.exc = ""
               THEN /\ data_sources' = keys
                    /\ results' = [results EXCEPT !.files =
                                      [status |-> "success", error |-> "", sources |-> keys]]
                    /\ p_log' = Append(p_log, StageEntry("read_file_data", "True", ""))
                    /\ p_pc' = "transform_data"
                    /\ UNCHANGED <<transformed, s3_objects, saved>>
               ELSE IF Catches(r.exc)
               THEN /\ data_sources' = keys
                    /\ results' = [results EXCEPT !.files = Failed(r.exc)]
                    /\ p_log' = Append(p_log, StageEntry("read_file_data", "False", r.exc))
                    /\ p_pc' = "transform_data"
                    /\ UNCHANGED <<transformed, s3_objects, saved>>
               ELSE Propagates("read_file_data", r.exc)
    /\ UNCHANGED db_conn
    /\ UNCHANGED <<apiVars, notPipe>>

\* (mutant) run saves whatever transform_data returned, unless it is None
SavesUnlessNone(t) == ~t.none

\* if transformed_data: a dict that is not empty
RunSaves(t) == ~t.none /\ t.keys # <<>>

\* the stage that follows transform_data in run
AfterTransform(t) == IF RunSaves(t) THEN "save_to_s3" ELSE "print_summary"

\* transform_data, and run's test of what it returned
transform_data ==
    /\ p_pc = "transform_data"
    /\ \E outcome \in {"ok", "error"} :
           \* the loop body, the only code that can raise, runs once per source
           /\ outcome = "error" => data_sources # <<>>
           /\ LET exc == IF outcome = "error" THEN "MemoryError" ELSE ""
              IN  IF exc = ""
                  THEN /\ transformed' = [none |-> FALSE, keys |-> data_sources]
                       /\ p_log' = Append(p_log, StageEntry("transform_data", "dict", ""))
                       /\ p_pc' = AfterTransform([none |-> FALSE, keys |-> data_sources])
                       /\ UNCHANGED <<data_sources, results, s3_objects, saved>>
                  ELSE IF Catches(exc)
                  THEN /\ transformed' = [none |-> TRUE, keys |-> <<>>]
                       /\ p_log' = Append(p_log, StageEntry("transform_data", "None", exc))
                       /\ p_pc' = AfterTransform([none |-> TRUE, keys |-> <<>>])
                       /\ UNCHANGED <<data_sources, results, s3_objects, saved>>
                  ELSE Propagates("transform_data", exc)
    /\ UNCHANGED db_conn
    /\ UNCHANGED <<apiVars, notPipe>>

Range(seq) == {seq[i] : i \in DOMAIN seq}

save_to_s3 ==
    /\ p_pc = "save_to_s3"
    /\ \E outcome \in {"no_client", "uploaded", "error"} :
       \E lost \in {{}, Range(SubSeq(transformed.keys, 1, 1)), Range(transformed.keys)} :
           LET exc == IF outcome = "error" THEN "BotoCoreError" ELSE ""
           IN  IF outcome = "no_client"
               THEN /\ p_log' = Append(p_log, StageEntry("save_to_s3", "False", ""))
                    /\ p_pc' = "save_locally"
                    /\ UNCHANGED <<data_sources, results, transformed, s3_objects, saved>>
               ELSE IF exc = ""
               THEN /\ s3_objects' = Range(transformed.keys) \ lost
                    /\ results' = [results EXCEPT !.s3_upload = Success]
                    /\ p_log' = Append(p_log, StageEntry("save_to_s3", "True", ""))
                    /\ p_pc' = "save_locally"
                    /\ UNCHANGED <<data_sources, transformed, saved>>
               ELSE IF Catches(exc)
               THEN /\ results' = [results EXCEPT !.s3_upload = Failed(exc)]
                    /\ p_log' = Append(p_log, StageEntry("save_to_s3", "False", exc))
                    /\ p_pc' = "save_locally"
                    /\ UNCHANGED <<data_sources, transformed, s3_objects, saved>>
               ELSE Propagates("save_to_s3", exc)
    /\ UNCHANGED db_conn
    /\ UNCHANGED <<apiVars, notPipe>>

save_locally ==
    /\ p_pc = "save_locally"
    /\ \E outcome \in {"ok", "error"} :
       \E written \in {0, Len(transformed.keys)} :
           LET exc == IF outcome = "error" THEN "OSError" ELSE ""
           IN  IF exc = ""
               THEN /\ saved' = Range(transformed.keys) \cup {"pipeline_results"}
                    /\ p_log' = Append(p_log, StageEntry("save_locally", "True", ""))
                    /\ p_pc' = "print_summary"
                    /\ UNCHANGED <<data_sources, results, transformed, s3_objects>>
               ELSE IF Catches(exc)
               THEN /\ saved' = Range(SubSeq(transformed.keys, 1, written))
                    /\ p_log' = Append(p_log, StageEntry("save_locally", "False", exc))
                    /\ p_pc' = "print_summary"
                    /\ UNCHANGED <<data_sources, results, transformed, s3_objects>>
               ELSE Propagates("save_locally", exc)
    /\ UNCHANGED db_conn
    /\ UNCHANGED <<apiVars, notPipe>>

print_summary ==
    /\ p_pc = "print_summary"
    /\ p_log' = Append(p_log, StageEntry("print_summary", "None", ""))
    /\ p_pc' = "done"
    /\ UNCHANGED <<data_sources, results, transformed, db_conn, s3_objects, saved>>
    /\ UNCHANGED <<apiVars, notPipe>>

NextPipe ==
    \/ DataPipeline_run
    \/ Pipe_api_request
    \/ Pipe_api_sleep
    \/ fetch_api_data
    \/ fetch_database_data
    \/ read_file_data
    \/ transform_data
    \/ save_to_s3
    \/ save_locally
    \/ print_summary

\* run is not interrupted: a stage that can go on does
StartPipe == InitPipe /\ OnlyPipe

SpecPipe == StartPipe /\ [][NextPipe]_vars /\ WF_vars(NextPipe)

StageNames == [i \in 1..Len(p_log) |-> p_log[i].stage]

StagesWithSaves ==
    <<"fetch_api_data", "fetch_database_data", "read_file_data", "transform_data",
      "save_to_s3", "save_locally", "print_summary">>

StagesWithoutSaves ==
    <<"fetch_api_data", "fetch_database_data", "read_file_data", "transform_data",
      "print_summary">>

\* no exception leaves a stage; a failed stage returned None or False and a
\* failed source stage recorded 'failed' with the error under its key; the
\* stages are called once each in run's order, whatever failed before.
C5_FailuresContained ==
    /\ p_pc # "crashed"
    /\ \A i \in 1..Len(p_log) :
           LET e == p_log[i]
           IN  /\ e.ret # "raised"
               /\ e.exc # "" =>
                      /\ e.ret = IF e.stage \in {"read_file_data", "save_to_s3", "save_locally"}
                                 THEN "False" ELSE "None"
                      /\ e.stage = "fetch_api_data" => results.api = Failed(e.exc)
                      /\ e.stage = "fetch_database_data" => results.database = Failed(e.exc)
                      /\ e.stage = "read_file_data" => results.files = Failed(e.exc)
    /\ \/ IsPrefix(StageNames, StagesWithSaves)
       \/ IsPrefix(StageNames, StagesWithoutSaves)
    /\ p_pc = "done" =>
           /\ Len(p_log) >= 5
           /\ p_log[Len(p_log)].stage = "print_summary"

\* no request is sent a second time
C5_NoRequestResent == Requests(a_events) <= 1

\* the only repetition is that of APIClient._make_request inside
\* fetch_api_data: at most max_retries requests, each one after the first sent
\* after a timeout or connection error and its backoff
C5_RetriesOnlyInApiClient ==
    /\ Requests(a_events) <= DefaultMaxRetries
    /\ \A i \in 1..Len(a_events) :
           (a_events[i].kind = "request" /\ i > 1) =>
               /\ a_events[i - 1].kind = "sleep"
               /\ a_events[i - 2].kind = "request"
               /\ a_events[i - 2].outcome \in Retryable

\* C5: run never propagates an exception of a stage; the failing stage returns
\* None or False, a failing source stage records 'failed' with the error text in
\* results['sources'], the other stages are still executed, nothing is retried,
\* and print_summary is always reached.
C5_RunContainsFailuresNoRetry ==
    /\ [](C5_FailuresContained /\ C5_NoRequestResent)
    /\ <>(p_pc = "done")

\* C5 (amended): as C5, but the API stage re-sends its request: no stage is
\* executed twice, and the only retries are the requests APIClient repeats
\* inside fetch_api_data after a timeout or connection error.
C5_RunContainsFailures ==
    /\ [](C5_FailuresContained /\ C5_RetriesOnlyInApiClient)
    /\ <>(p_pc = "done")

\* all three source stages failed, the API stage after three requests, and run
\* went on to transform_data and print_summary
C5_Witness ==
    /\ p_pc = "done"
    /\ results.api = Failed("Timeout")
    /\ Requests(a_events) = 3
    /\ results.database.status = "failed"
    /\ results.files.status = "failed"
    /\ StageNames = StagesWithoutSaves

-----------------------------------------------------------------------------
(* The rate_limit decorator *)

\* the age in seconds beyond which a recorded timestamp is dropped
Window == 60

Threads == {1, 2}

RateLimits == {1, 2}

\* the clock advances by half a minute or a second more
Ticks == {30, 31}

\* (mutant) a lock that is never found held
LockIgnored(l) == TRUE

\* Lock.acquire succeeds when no thread holds the lock
LockFree(l) == l = 0

\* now - last_calls[0] > 60
TooOld(now, stamp) == now - stamp > Window

RateEvent(kind, t) == [kind |-> kind, call |-> t_call[t], at |-> t_now[t], thread |-> t]

\* @rate_limit(calls_per_minute=N) applied to a function
InitRate ==
    /\ calls_per_minute \in RateLimits
    /\ last_calls = <<>>
    /\ lock = 0
    /\ clock = 0
    /\ t_pc = [t \in Threads |-> "idle"]
    /\ t_now = [t \in Threads |-> 0]
    /\ t_call = [t \in Threads |-> 0]
    /\ rl_events = <<>>

LastCallId == CHOOSE c \in {t_call[t] : t \in Threads} : \A t \in Threads : t_call[t] <= c

\* a thread calls the wrapper
rl_call(t) ==
    /\ t_pc[t] = "idle"
    /\ LastCallId < MaxCalls
    /\ t_call' = [t_call EXCEPT ![t] = LastCallId + 1]
    /\ t_pc' = [t_pc EXCEPT ![t] = "acquire"]
    /\ UNCHANGED <<calls_per_minute, last_calls, lock, clock, t_now, rl_events>>

\* with lock: now = time.time()
rl_acquire(t) ==
    /\ t_pc[t] = "acquire"
    /\ LockFree(lock)
    /\ lock' = t
    /\ t_now' = [t_now EXCEPT ![t] = clock]
    /\ t_pc' = [t_pc EXCEPT ![t] = "cleanup"]
    /\ UNCHANGED <<calls_per_minute, last_calls, clock, t_call, rl_events>>

\* while last_calls and (now - last_calls[0]) > 60: last_calls.pop(0)
rl_cleanup(t) ==
    /\ t_pc[t] = "cleanup"
    /\ IF last_calls # <<>> /\ TooOld(t_now[t], Head(last_calls))
       THEN /\ last_calls' = Tail(last_calls)
            /\ UNCHANGED t_pc
       ELSE /\ t_pc' = [t_pc EXCEPT ![t] = "check"]
            /\ UNCHANGED last_calls
    /\ UNCHANGED <<calls_per_minute, lock, clock, t_now, t_call, rl_events>>

\* if len(last_calls) >= calls_per_minute: raise Exception("Rate limit exceeded")
\* (leaving the with block releases the lock)
rl_check(t) ==
    /\ t_pc[t] = "check"
    /\ IF Len(last_calls) >= calls_per_minute
       THEN /\ rl_events' = Append(rl_events, RateEvent("reject", t))
            /\ lock' = 0
            /\ t_pc' = [t_pc EXCEPT ![t] = "idle"]
       ELSE /\ t_pc' = [t_pc EXCEPT ![t] = "append"]
            /\ UNCHANGED <<rl_events, lock>>
    /\ UNCHANGED <<calls_per_minute, last_calls, clock, t_now, t_call>>

\* last_calls.append(now), and the with block ends
rl_append(t) ==
    /\ t_pc[t] = "append"
    /\ last_calls' = Append(last_calls, t_now[t])
    /\ rl_events' = Append(rl_events, RateEvent("admit", t))
    /\ lock' = 0
    /\ t_pc' = [t_pc EXCEPT ![t] = "invoke"]
    /\ UNCHANGED <<calls_per_minute, clock, t_now, t_call>>

\* return func(*args, **kwargs)
rl_invoke(t) ==
    /\ t_pc[t] = "invoke"
    /\ rl_events' = Append(rl_events, RateEvent("invoke", t))
    /\ t_pc' = [t_pc EXCEPT ![t] = "idle"]
    /\ UNCHANGED <<calls_per_minute, last_calls, lock, clock, t_now, t_call>>

\* time passes
Tick ==
    /\ \E d \in Ticks :
           /\ clock + d <= MaxTime
           /\ clock' = clock + d
    /\ UNCHANGED <<calls_per_minute, last_calls, lock, t_pc, t_now, t_call, rl_events>>

Rate_call == (\E t \in Threads : rl_call(t)) /\ UNCHANGED notRate

Rate_acquire == (\E t \in Threads : rl_acquire(t)) /\ UNCHANGED notRate

Rate_cleanup == (\E t \in Threads : rl_cleanup(t)) /\ UNCHANGED notRate

Rate_check == (\E t \in Threads : rl_check(t)) /\ UNCHANGED notRate

Rate_append == (\E t \in Threads : rl_append(t)) /\ UNCHANGED notRate

Rate_invoke == (\E t \in Threads : rl_invoke(t)) /\ UNCHANGED notRate

Rate_tick == Tick /\ UNCHANGED notRate

NextRate ==
    \/ Rate_call
    \/ Rate_acquire
    \/ Rate_cleanup
    \/ Rate_check
    \/ Rate_append
    \/ Rate_invoke
    \/ Rate_tick

StartRate == InitRate /\ OnlyRate

SpecRate == StartRate /\ [][NextRate]_vars

AdmitIndexes == {i \in DOMAIN rl_events : rl_events[i].kind = "admit"}

\* the admitted calls that were at most 60 seconds old when event i happened
RecentAdmits(i) ==
    {j \in AdmitIndexes : j < i /\ rl_events[i].at - rl_events[j].at <= Window}

AdmitStamps ==
    LET adm == SelectSeq(rl_events, LAMBDA e : e.kind = "admit")
    IN  [i \in 1..Len(adm) |-> adm[i].at]

\* C8: under any interleaving at most calls_per_minute admitted calls have
\* timestamps inside any 60-second window (it is enough to look at the windows
\* that start at an admitted timestamp); a call is rejected exactly when
\* calls_per_minute admitted calls are at most 60 seconds old, and a rejected
\* call neither records a timestamp nor invokes the function; an admitted call
\* records its timestamp and goes on to invoke the function; timestamps older
\* than 60 seconds no longer count, so later calls are admitted again.
C8_RateLimitHolds ==
    /\ \A i \in AdmitIndexes :
           Cardinality({j \in AdmitIndexes : /\ rl_events[i].at <= rl_events[j].at
                                             /\ rl_events[j].at <= rl_events[i].at + Window})
               <= calls_per_minute
    /\ \A i \in DOMAIN rl_events :
           LET e == rl_events[i]
           IN  /\ e.kind = "reject" =>
                      /\ Cardinality(RecentAdmits(i)) >= calls_per_minute
                      /\ \A j \in DOMAIN rl_events : j # i => rl_events[j].call # e.call
               /\ e.kind = "admit" =>
                      /\ Cardinality(RecentAdmits(i)) < calls_per_minute
                      /\ \/ \E j \in DOMAIN rl_events :
                                /\ j > i
                                /\ rl_events[j] = [e EXCEPT !.kind = "invoke"]
                         \/ t_pc[e.thread] = "invoke" /\ t_call[e.thread] = e.call
               /\ e.kind = "invoke" =>
                      \E j \in AdmitIndexes : j < i /\ rl_events[j].call = e.call
    /\ \E k \in 1..(Len(AdmitStamps) + 1) :
           last_calls = SubSeq(AdmitStamps, k, Len(AdmitStamps))
    /\ \A t \in Threads :
           t_pc[t] = "check" => \A k \in DOMAIN last_calls : ~(t_now[t] - last_calls[k] > Window)

\* a call was rejected, and after the recorded timestamp had aged beyond 60
\* seconds a later call was admitted and invoked the function
C8_Witness ==
    \E i, j, k \in DOMAIN rl_events :
        /\ i < j /\ j < k
        /\ rl_events[i].kind = "reject"
        /\ rl_events[j].kind = "admit"
        /\ rl_events[k].kind = "invoke"
        /\ rl_events[k].call = rl_events[j].call
        /\ Cardinality(AdmitIndexes) > calls_per_minute

-----------------------------------------------------------------------------
(* data_utils.validators: validate_price and validate_customer_id *)

\* Python values that reach the validators
PyNone == [t |-> "None"]

PyList == [t |-> "list"]

PyInt(n) == [t |-> "int", i |-> n]

\* an int beyond the range of float, such as 10**400
PyBigInt == [t |-> "bigint"]

PyFloat(x) == [t |-> "float", f |-> x]

PyStr(chars) == [t |-> "str", s |-> chars]

\* floats: finite values, nan and the infinities
Fin(n) == [k |-> "fin", v |-> n]

FNaN == [k |-> "nan", v |-> 0]

PInf == [k |-> "pinf", v |-> 0]

NInf == [k |-> "ninf", v |-> 0]

\* a < b on floats: every comparison with nan is False
FLess(a, b) ==
    /\ a.k # "nan"
    /\ b.k # "nan"
    /\ \/ a.k = "ninf" /\ b.k # "ninf"
       \/ a.k # "pinf" /\ b.k = "pinf"
       \/ a.k = "fin" /\ b.k = "fin" /\ a.v < b.v

\* a <= b on floats
FLeq(a, b) == FLess(a, b) \/ (a.k # "nan" /\ a = b)

DigitValue(c) == IF c = "1" THEN 1 ELSE 9

RECURSIVE DecValue(_)
DecValue(s) == IF s = <<>> THEN 0
               ELSE 10 * DecValue(SubSeq(s, 1, Len(s) - 1)) + DigitValue(s[Len(s)])

\* float(str): surrounding whitespace is ignored; an optional sign; then nan in
\* any case, or decimal digits
ParseFloat(s) ==
    LET u == StrStrip(s)
        neg == u # <<>> /\ Head(u) = "-"
        digits == IF neg THEN Tail(u) ELSE u
    IN  IF StrLower(digits) = <<"n", "a", "n">>
        THEN [exc |-> "", f |-> FNaN]
        ELSE IF digits # <<>> /\ \A i \in DOMAIN digits : IsDigit(digits[i])
        THEN [exc |-> "", f |-> Fin(IF neg THEN 0 - DecValue(digits) ELSE DecValue(digits))]
        ELSE [exc |-> "ValueError", f |-> FNaN]

\* float(x)
ToFloat(x) ==
    CASE x.t = "int" -> [exc |-> "", f |-> Fin(x.i)]
      [] x.t = "bigint" -> [exc |-> "OverflowError", f |-> FNaN]
      [] x.t = "float" -> [exc |-> "", f |-> x.f]
      [] x.t = "str" -> ParseFloat(x.s)
      [] OTHER -> [exc |-> "TypeError", f |-> FNaN]

\* what a validator gives its caller: a pair (is_valid, error_message), or an exception
Ret(valid, message) == [raised |-> "", valid |-> valid, message |-> message]

Raised(exc) == [raised |-> exc, valid |-> FALSE, message |-> "None"]

validate_price(price, min_price, max_price) ==
    LET c == ToFloat(price)
    IN  IF c.exc \in {"ValueError", "TypeError"} THEN Ret(FALSE, "Invalid price format")
        ELSE IF c.exc # "" THEN Raised(c.exc)
        ELSE IF FLess(c.f, Fin(0)) THEN Ret(FALSE, "Price cannot be negative")
        ELSE IF FLess(c.f, min_price) THEN Ret(FALSE, "Price below minimum")
        ELSE IF FLess(max_price, c.f) THEN Ret(FALSE, "Price above maximum")
        ELSE Ret(TRUE, "None")

PriceStrings ==
    {<<>>, <<"9">>, <<" ", "1", "9", " ">>, <<"-", "1">>, <<"n", "a", "n">>,
     <<"N", "a", "N">>, <<"a", "9">>, <<"-">>}

Prices ==
    {PyInt(0 - 1), PyInt(0), PyInt(5), PyInt(100), PyBigInt, PyFloat(FNaN),
     PyFloat(PInf), PyFloat(NInf), PyNone, PyList}
        \cup {PyStr(x) : x \in PriceStrings}

MinPrices == {Fin(0 - 5), Fin(0), Fin(2)}

MaxPrices == {Fin(1), Fin(10), PInf}

InitPrice ==
    /\ v_pc = "call"
    /\ v_args \in [fn : {"validate_price"}, price : Prices,
                   min_price : MinPrices, max_price : MaxPrices]
    /\ v_result = <<>>

Validate_price ==
    /\ v_pc = "call"
    /\ v_args.fn = "validate_price"
    /\ v_result' = validate_price(v_args.price, v_args.min_price, v_args.max_price)
    /\ v_pc' = "done"
    /\ UNCHANGED v_args
    /\ UNCHANGED notVal

NextPrice == Validate_price

StartPrice == InitPrice /\ OnlyVal

SpecPrice == StartPrice /\ [][NextPrice]_vars

\* C9: validate_price never raises; it returns (True, None) exactly when the
\* price converts to a number p with p >= 0, p >= min_price and p <= max_price;
\* an unconvertible price gives 'Invalid price format', p < 0 the negative
\* message whatever min_price is, then p < min_price the below-minimum message
\* and p > max_price the above-maximum message.
C9_PriceValidExactlyInRange ==
    (v_pc = "done" /\ v_args.fn = "validate_price") =>
        LET r == v_result
            c == ToFloat(v_args.price)
            p == c.f
            converts == c.exc = ""
            negative == FLess(p, Fin(0))
            below == FLess(p, v_args.min_price)
            above == FLess(v_args.max_price, p)
        IN  /\ r.raised = ""
            /\ r = Ret(TRUE, "None") <=>
                   /\ converts
                   /\ FLeq(Fin(0), p)
                   /\ FLeq(v_args.min_price, p)
                   /\ FLeq(p, v_args.max_price)
            /\ ~converts => r = Ret(FALSE, "Invalid price format")
            /\ (converts /\ negative) => r = Ret(FALSE, "Price cannot be negative")
            /\ (converts /\ ~negative /\ below) => r = Ret(FALSE, "Price below minimum")
            /\ (converts /\ ~negative /\ ~below /\ above) =>
                   r = Ret(FALSE, "Price above maximum")

IdChars == {"C", "c", "1", "A", " "}

IdStrings == UNION {[1..n -> IdChars] : n \in 0..MaxIdLen}

CustomerIds == {PyNone, PyInt(0), PyInt(1234)} \cup {PyStr(x) : x \in IdStrings}

Prefixes == {<<"C">>, <<>>, <<"C", "A">>, <<"c">>}

MinLengths == {1, 3, 4}

\* bool(x)
Truthy(x) ==
    CASE x.t = "None" -> FALSE
      [] x.t = "int" -> x.i # 0
      [] x.t = "str" -> x.s # <<>>
      [] OTHER -> TRUE

\* str.startswith
StartsWith(s, prefix) ==
    /\ Len(prefix) <= Len(s)
    /\ SubSeq(s, 1, Len(prefix)) = prefix

\* (mutant) a test that the empty string passes
StrAllDigits(s) == \A i \in DOMAIN s : IsDigit(s[i])

\* str.isdigit: at least one character, and all of them digits
StrIsDigit(s) == s # <<>> /\ \A i \in DOMAIN s : IsDigit(s[i])

validate_customer_id(customer_id, prefix, min_length) ==
    IF ~Truthy(customer_id) \/ customer_id.t # "str"
    THEN Ret(FALSE, "Customer ID is required")
    ELSE LET id == StrUpper(StrStrip(customer_id.s))
             id_number == SubSeq(id, Len(prefix) + 1, Len(id))
         IN  IF ~StartsWith(id, prefix) THEN Ret(FALSE, "Customer ID must start with prefix")
             ELSE IF Len(id) < min_length THEN Ret(FALSE, "Customer ID too short")
             ELSE IF ~StrIsDigit(id_number) THEN Ret(FALSE, "Customer ID must end with numbers")
             ELSE Ret(TRUE, "None")

InitCust ==
    /\ v_pc = "call"
    /\ v_args \in [fn : {"validate_customer_id"}, customer_id : CustomerIds,
                   prefix : Prefixes, min_length : MinLengths]
    /\ v_result = <<>>

Validate_customer_id ==
    /\ v_pc = "call"
    /\ v_args.fn = "validate_customer_id"
    /\ v_result' = validate_customer_id(v_args.customer_id, v_args.prefix, v_args.min_length)
    /\ v_pc' = "done"
    /\ UNCHANGED v_args
    /\ UNCHANGED notVal

NextCust == Validate_customer_id

StartCust == InitCust /\ OnlyVal

SpecCust == StartCust /\ [][NextCust]_vars

\* a non-empty string that is, between its leading and trailing whitespace, the
\* prefix (in either case) followed by one or more digits, at least min_length
\* characters in all
WellFormedId(x, prefix, min_length) ==
    /\ x.t = "str"
    /\ \E a, b \in 0..Len(x.s) :
           /\ a + b < Len(x.s)
           /\ \A i \in 1..a : x.s[i] = " "
           /\ \A i \in (Len(x.s) - b + 1)..Len(x.s) : x.s[i] = " "
           /\ LET core == SubSeq(x.s, a + 1, Len(x.s) - b)
              IN  /\ core[1] # " "
                  /\ core[Len(core)] # " "
                  /\ Len(core) > Len(prefix)
                  /\ Len(core) >= min_length
                  /\ \A i \in 1..Len(prefix) : UpperChar(core[i]) = prefix[i]
                  /\ \A i \in (Len(prefix) + 1)..Len(core) : core[i] \in {"1", "9"}

\* C10: validate_customer_id never raises; it returns (True, None) exactly when
\* customer_id is a non-empty string that, stripped and upper-cased, starts with
\* the prefix, is at least min_length long and has a non-empty all-digit
\* remainder; in every other case it returns (False, message).
C10_CustomerIdValidExactlyWhenWellFormed ==
    (v_pc = "done" /\ v_args.fn = "validate_customer_id") =>
        LET r == v_result
            ok == WellFormedId(v_args.customer_id, v_args.prefix, v_args.min_length)
        IN  /\ r.raised = ""
            /\ ok => r = Ret(TRUE, "None")
            /\ ~ok => r.valid = FALSE /\ r.message # "None"

\* an ID with leading whitespace and a lower-case prefix was accepted
C10_Witness ==
    /\ v_pc = "done"
    /\ v_args.fn = "validate_customer_id"
    /\ v_args.prefix = <<"C">>
    /\ v_args.min_length = 3
    /\ v_args.customer_id = PyStr(<<" ", "c", "1", "1">>)
    /\ v_result = Ret(TRUE, "None")

-----------------------------------------------------------------------------
(* data_utils.validators: validate_phone and validate_email *)

\* the positions at which $ matches when the pattern is applied to s: the end
\* of the string, and just before a newline that ends the string
DollarEnds(s) ==
    {Len(s)} \cup (IF s # <<>> /\ s[Len(s)] = "\n" THEN {Len(s) - 1} ELSE {})

\* [6-9]
IsSixToNine(c) == c = "9"

\* phone.replace(' ', '').replace('-', '')
RemoveSpacesAndDashes(s) == SelectSeq(s, LAMBDA c : c # " " /\ c # "-")

\* re.match(r'^[6-9]\d{9}$', s)
MatchesIndianMobile(s) ==
    /\ 10 \in DollarEnds(s)
    /\ IsSixToNine(s[1])
    /\ \A i \in 2..10 : IsDigit(s[i])

validate_phone(phone, country_code) ==
    IF ~Truthy(phone) \/ phone.t # "str" THEN FALSE
    ELSE IF country_code = "IN" THEN MatchesIndianMobile(RemoveSpacesAndDashes(phone.s))
    ELSE FALSE

Repeat(c, n) == [i \in 1..n |-> c]

\* a run of n characters, the first one given, with a separator put in after
\* the first k of them and a tail appended
PhoneString(first, filler, n, sep, k, tail) ==
    LET run == <<first>> \o Repeat(filler, n - 1)
        cut == IF k < n THEN k ELSE n
    IN  SubSeq(run, 1, cut) \o sep \o SubSeq(run, cut + 1, n) \o tail

PhoneStrings ==
    {PhoneString(first, filler, n, sep, k, tail) :
        first \in {"9", "1", "a"}, filler \in {"1", "9"}, n \in 1..MaxPhoneDigits,
        sep \in {<<>>, <<" ">>, <<"-">>}, k \in {0, 5},
        tail \in {<<>>, <<"\n">>, <<" ">>, <<"a">>}}

Phones == {PyNone, PyInt(0), PyInt(9876), PyStr(<<>>)} \cup {PyStr(x) : x \in PhoneStrings}

CountryCodes == {"IN", "US", "in"}

InitPhone ==
    /\ v_pc = "call"
    /\ v_args \in [fn : {"validate_phone"}, phone : Phones, country_code : CountryCodes]
    /\ v_result = <<>>

Validate_phone ==
    /\ v_pc = "call"
    /\ v_args.fn = "validate_phone"
    /\ v_result' = validate_phone(v_args.phone, v_args.country_code)
    /\ v_pc' = "done"
    /\ UNCHANGED v_args
    /\ UNCHANGED notVal

NextPhone == Validate_phone

StartPhone == InitPhone /\ OnlyVal

SpecPhone == StartPhone /\ [][NextPhone]_vars

\* C11: validate_phone returns False for None, the empty string and non-string
\* values; for country code 'IN' it returns True exactly when the string
\* without its spaces and dashes is exactly 10 digits of which the first is 6,
\* 7, 8 or 9; for every other country code it returns False.
C11_PhoneValidExactlyTenDigits ==
    (v_pc = "done" /\ v_args.fn = "validate_phone") =>
        LET x == v_args.phone
            bare == SelectSeq(x.s, LAMBDA c : c \notin {" ", "-"})
        IN  v_result = /\ x.t = "str"
                       /\ v_args.country_code = "IN"
                       /\ Len(bare) = 10
                       /\ \A i \in 1..Len(bare) : bare[i] \in {"1", "9"}
                       /\ bare[1] = "9"

\* [a-zA-Z0-9._%+-]
IsLocalChar(c) == IsAlpha(c) \/ IsDigit(c) \/ c \in {".", "_", "%", "+", "-"}

\* [a-zA-Z0-9.-]
IsDomainChar(c) == IsAlpha(c) \/ IsDigit(c) \/ c \in {".", "-"}

\* s[1..e] is local@domain.tld
EmailShape(s, e) ==
    \E at \in 2..e : \E dot \in (at + 2)..(e - 2) :
        /\ s[at] = "@"
        /\ \A i \in 1..(at - 1) : IsLocalChar(s[i])
        /\ \A i \in (at + 1)..(dot - 1) : IsDomainChar(s[i])
        /\ s[dot] = "."
        /\ \A i \in (dot + 1)..e : IsAlpha(s[i])

\* re.match(r'^[a-zA-Z0-9._%+-]+@[a-zA-Z0-9.-]+\.[a-zA-Z]{2,}$', s)
MatchesEmail(s) == \E e \in DollarEnds(s) : EmailShape(s, e)

validate_email(email) ==
    IF ~Truthy(email) \/ email.t # "str" THEN FALSE
    ELSE MatchesEmail(email.s)

EmailChars == {"a", ".", "@", "-", "\n"}

EmailStrings ==
    UNION {[1..n -> EmailChars] : n \in 0..MaxEmailLen}
        \cup {<<"a", " ", "a", "@", "a", ".", "a", "a">>,
              <<"a", "1", "_", "@", "a", "1", ".", "a", "a">>,
              <<"a", "@", "a", ".", "a", "1">>}

Emails == {PyNone, PyInt(0), PyInt(1234), PyList} \cup {PyStr(x) : x \in EmailStrings}

InitEmail ==
    /\ v_pc = "call"
    /\ v_args \in [fn : {"validate_email"}, email : Emails]
    /\ v_result = <<>>

Validate_email ==
    /\ v_pc = "call"
    /\ v_args.fn = "validate_email"
    /\ v_result' = validate_email(v_args.email)
    /\ v_pc' = "done"
    /\ UNCHANGED v_args
    /\ UNCHANGED notVal

NextEmail == Validate_email

StartEmail == InitEmail /\ OnlyVal

SpecEmail == StartEmail /\ [][NextEmail]_vars

\* C12: validate_email returns False for None, the empty string and non-string
\* values, and for a string returns True exactly when the whole string is
\* local@domain.tld: a non-empty local part of letters, digits and . _ % + -, a
\* non-empty domain of letters, digits, '.' and '-', and a final label of at
\* least two letters.
C12_EmailValidExactlyWholeForm ==
    (v_pc = "done" /\ v_args.fn = "validate_email") =>
        LET x == v_args.email
        IN  v_result = /\ x.t = "str"
                       /\ EmailShape(x.s, Len(x.s))

-----------------------------------------------------------------------------
(* Floating-point arithmetic: every operation returns the float nearest to its
   exact result, ties going to the even significand. Floats are the rationals
   m * 2^e with m below 2^Mantissa; the exponent is unbounded. *)

\* a / d, a >= 0 and d > 0, rounded to the nearest integer, ties to even
RoundHalfEven(a, d) ==
    LET q == a \div d
        r == a % d
    IN  IF 2 * r < d THEN q
        ELSE IF 2 * r > d THEN q + 1
        ELSE IF q % 2 = 0 THEN q ELSE q + 1

\* a / d scaled by a power of two into [2^(Mantissa-1), 2^Mantissa)
RECURSIVE Normalise(_, _)
Normalise(a, d) ==
    IF a >= d * Pow2(Mantissa) THEN Normalise(a, 2 * d)
    ELSE IF a < d * Pow2(Mantissa - 1) THEN Normalise(2 * a, d)
    ELSE [a |-> a, d |-> d]

\* the float nearest to the rational x
Fl(x) ==
    IF IsNaN(x) \/ x.n = 0 THEN x
    ELSE LET a == Abs(x.n)
             s == Normalise(a, x.d)
             m == RoundHalfEven(s.a, s.d)
             sign == IF x.n < 0 THEN 0 - 1 ELSE 1
         IN  Rat(sign * m * s.d * a, x.d * s.a)

FAdd(x, y) == Fl(RAdd(x, y))

FSub(x, y) == Fl(RSub(x, y))

FMul(x, y) == Fl(RMul(x, y))

\* x / y for y # 0
RDiv(x, y) == Rat(x.n * y.d, x.d * y.n)

FDiv(x, y) == Fl(RDiv(x, y))

\* float('inf')
Infinity == [n |-> 1, d |-> 0]

\* int(x): truncation toward zero
Trunc(x) == IF x.n >= 0 THEN x.n \div x.d ELSE 0 - ((0 - x.n) \div x.d)

-----------------------------------------------------------------------------
(* data_utils.calculators *)

\* what a calculator gives its caller
Val(x) == [raised |-> "", value |-> x]

\* x / y as Python evaluates it
Divide(x, y) == IF y.n = 0 THEN Raised("ZeroDivisionError") ELSE Val(FDiv(x, y))

\* (mutant) the quantity is used as it is
KeepFraction(x) == x

\* int(quantity) as a float operand
IntOperand(x) == Fl(Num(Trunc(x)))

\* float(price) * int(quantity)
calculate_revenue(price, quantity) == Val(FMul(price, IntOperand(quantity)))

\* float(revenue) - float(cost)
calculate_profit(revenue, cost) == Val(FSub(revenue, cost))

\* (mutant) the margin without the test for zero revenue
calculate_profit_margin_unguarded(revenue, cost) ==
    Divide(calculate_profit(revenue, cost).value, revenue)

calculate_profit_margin(revenue, cost) ==
    IF revenue.n = 0 THEN Val(Num(0))
    ELSE Divide(calculate_profit(revenue, cost).value, revenue)

\* (mutant) the discount taken as a fraction, not a percentage
calculate_discount_fraction(original_price, discount_percentage) ==
    LET discount_amount == FMul(original_price, discount_percentage)
    IN  Val([discounted_price |-> FSub(original_price, discount_amount),
             discount_amount |-> discount_amount])

calculate_discount(original_price, discount_percentage) ==
    LET discount_amount == FMul(original_price, FDiv(discount_percentage, Num(100)))
        discounted_price == FSub(original_price, discount_amount)
    IN  Val([discounted_price |-> discounted_price, discount_amount |-> discount_amount])

\* (mutant) the growth measured against the new value
calculate_growth_rate_of_new(old_value, new_value) ==
    IF old_value.n = 0 THEN Val(IF new_value.n = 0 THEN Num(0) ELSE Infinity)
    ELSE IF new_value.n = 0 THEN Raised("ZeroDivisionError")
    ELSE Val(FMul(FDiv(FSub(new_value, old_value), new_value), Num(100)))

calculate_growth_rate(old_value, new_value) ==
    IF old_value.n = 0 THEN Val(IF new_value.n = 0 THEN Num(0) ELSE Infinity)
    ELSE LET q == Divide(FSub(new_value, old_value), old_value)
         IN  IF q.raised # "" THEN q ELSE Val(FMul(q.value, Num(100)))

\* sum(data): from 0, left to right
RECURSIVE FSum(_)
FSum(data) ==
    IF data = <<>> THEN Num(0)
    ELSE FAdd(FSum(SubSeq(data, 1, Len(data) - 1)), data[Len(data)])

\* min(data), max(data)
MinOf(data) == CHOOSE x \in Range(data) : \A y \in Range(data) : RLeq(x, y)

MaxOf(data) == CHOOSE x \in Range(data) : \A y \in Range(data) : RLeq(y, x)

\* (mutant) the average over one element fewer
calculate_metrics_short(data) ==
    IF data = <<>>
    THEN Val([total |-> Num(0), average |-> Num(0), min |-> Num(0), max |-> Num(0),
              count |-> 0])
    ELSE LET average == Divide(FSum(data), Num(Len(data) - 1))
         IN  IF average.raised # "" THEN average
             ELSE Val([total |-> FSum(data), average |-> average.value,
                       min |-> MinOf(data), max |-> MaxOf(data), count |-> Len(data)])

calculate_metrics(data) ==
    IF data = <<>>
    THEN Val([total |-> Num(0), average |-> Num(0), min |-> Num(0), max |-> Num(0),
              count |-> 0])
    ELSE LET average == Divide(FSum(data), Num(Len(data)))
         IN  IF average.raised # "" THEN average
             ELSE Val([total |-> FSum(data), average |-> average.value,
                       min |-> MinOf(data), max |-> MaxOf(data), count |-> Len(data)])

\* the floats given to the calculators: all are values of the format
Floats == {Fl(Rat(n, d)) : n \in (0 - 3)..11, d \in {1, 4}} \cup {Fl(Num(100))}

Quantities == {Num(0), Num(1), Num(3), Num(0 - 2), Rat(1, 2), Rat(5, 2), Rat(0 - 5, 2)}

Percentages == {Fl(Num(k)) : k \in {0 - 10, 0, 5, 10, 20, 50, 100, 120}}

ListValues == {Num(0), Num(1), Num(11), Num(0 - 3), Rat(1, 2)}

Lists == UNION {[1..n -> ListValues] : n \in 0..MaxList}

CalcArgs ==
    [fn : {"calculate_revenue"}, price : Floats, quantity : Quantities]
        \cup [fn : {"calculate_profit", "calculate_profit_margin"},
              revenue : Floats, cost : Floats]
        \cup [fn : {"calculate_discount"}, original_price : Floats,
              discount_percentage : Percentages]
        \cup [fn : {"calculate_growth_rate"}, old_value : Floats, new_value : Floats]
        \cup [fn : {"calculate_metrics"}, data : Lists]

InitCalc ==
    /\ v_pc = "call"
    /\ v_args \in CalcArgs
    /\ v_result = <<>>

Returns(fn, result) ==
    /\ v_pc = "call"
    /\ v_args.fn = fn
    /\ v_result' = result
    /\ v_pc' = "done"
    /\ UNCHANGED v_args
    /\ UNCHANGED notVal

Calc_revenue ==
    Returns("calculate_revenue", calculate_revenue(v_args.price, v_args.quantity))

Calc_profit ==
    Returns("calculate_profit", calculate_profit(v_args.revenue, v_args.cost))

Calc_profit_margin ==
    Returns("calculate_profit_margin", calculate_profit_margin(v_args.revenue, v_args.cost))

Calc_discount ==
    Returns("calculate_discount",
            calculate_discount(v_args.original_price, v_args.discount_percentage))

Calc_growth_rate ==
    Returns("calculate_growth_rate",
            calculate_growth_rate(v_args.old_value, v_args.new_value))

Calc_metrics == Returns("calculate_metrics", calculate_metrics(v_args.data))

NextCalc ==
    \/ Calc_revenue
    \/ Calc_profit
    \/ Calc_profit_margin
    \/ Calc_discount
    \/ Calc_growth_rate
    \/ Calc_metrics

StartCalc == InitCalc /\ OnlyVal

SpecCalc == StartCalc /\ [][NextCalc]_vars

Called(fn) == v_pc = "done" /\ v_args.fn = fn

-----------------------------------------------------------------------------
(* calculate_metrics *)

Zeros == [total |-> Num(0), average |-> Num(0), min |-> Num(0), max |-> Num(0), count |-> 0]

\* the sum of the elements as a number, without rounding
RECURSIVE ExactSum(_)
ExactSum(data) == IF data = <<>> THEN Num(0) ELSE RAdd(data[1], ExactSum(Tail(data)))

\* every partial sum of the list is a value of the float format
SumsExactly(data) ==
    \A k \in 1..Len(data) : Fl(ExactSum(SubSeq(data, 1, k))) = ExactSum(SubSeq(data, 1, k))

\* the mean of the list is a value of the float format
MeanExact(data) == Fl(RDivInt(ExactSum(data), Len(data))) = RDivInt(ExactSum(data), Len(data))

IsLeast(x, data) == x \in Range(data) /\ \A y \in Range(data) : RLeq(x, y)

IsGreatest(x, data) == x \in Range(data) /\ \A y \in Range(data) : RLeq(y, x)

\* C13 as stated: an empty list gives zeros without raising; otherwise total
\* is the sum, count the length, min and max the extremes, average is
\* total / count, with min <= average <= max and average * count = total.
C13_MetricsOrderedAndExact ==
    Called("calculate_metrics") =>
        LET data == v_args.data
            r == v_result
        IN  /\ r.raised = ""
            /\ data = <<>> => r.value = Zeros
            /\ data # <<>> =>
                /\ r.value.count = Len(data)
                /\ IsLeast(r.value.min, data)
                /\ IsGreatest(r.value.max, data)
                /\ r.value.average = Fl(RDivInt(r.value.total, r.value.count))
                /\ RLeq(r.value.min, r.value.average)
                /\ RLeq(r.value.average, r.value.max)
                /\ FMul(r.value.average, Num(r.value.count)) = r.value.total

\* C13 (amended): an empty list gives zeros without raising; otherwise count
\* is the length, min and max the extremes, average is the rounded quotient
\* total / count, and total is the sum whenever the running sums need no
\* rounding; min <= average <= max and average * count = total hold when
\* neither the sum nor the quotient is rounded.
C13_MetricsUpToRounding ==
    Called("calculate_metrics") =>
        LET data == v_args.data
            r == v_result
        IN  /\ r.raised = ""
            /\ data = <<>> => r.value = Zeros
            /\ data # <<>> =>
                /\ r.value.count = Len(data)
                /\ IsLeast(r.value.min, data)
                /\ IsGreatest(r.value.max, data)
                /\ r.value.average = Fl(RDivInt(r.value.total, r.value.count))
                /\ SumsExactly(data) => r.value.total = ExactSum(data)
                /\ (SumsExactly(data) /\ MeanExact(data)) =>
                    /\ RLeq(r.value.min, r.value.average)
                    /\ RLeq(r.value.average, r.value.max)
                    /\ RMul(r.value.average, Num(r.value.count)) = r.value.total

\* a three-element list whose sum and mean need no rounding
C13_Witness ==
    /\ Called("calculate_metrics")
    /\ Len(v_args.data) = MaxList
    /\ SumsExactly(v_args.data)
    /\ MeanExact(v_args.data)
    /\ RLess(v_result.value.min, v_result.value.average)
    /\ RLess(v_result.value.average, v_result.value.max)

-----------------------------------------------------------------------------
(* calculate_profit, calculate_profit_margin *)

\* C14: calculate_profit returns revenue - cost; calculate_profit_margin
\* returns 0.0 whenever revenue is 0, never raising a division by zero,
\* and (revenue - cost) / revenue otherwise.
C14_ProfitAndGuardedMargin ==
    /\ Called("calculate_profit") =>
        /\ v_result.raised = ""
        /\ v_result.value = FSub(v_args.revenue, v_args.cost)
    /\ Called("calculate_profit_margin") =>
        /\ v_result.raised = ""
        /\ RLeq(v_args.revenue, Num(0)) /\ RLeq(Num(0), v_args.revenue)
            => v_result.value = Num(0)
        /\ RLess(v_args.revenue, Num(0)) \/ RLess(Num(0), v_args.revenue)
            => v_result.value = FDiv(FSub(v_args.revenue, v_args.cost), v_args.revenue)

\* the margin asked for with no revenue and some cost
C14_Witness ==
    /\ Called("calculate_profit_margin")
    /\ v_args.revenue = Num(0)
    /\ RLess(Num(0), v_args.cost)
    /\ v_result = Val(Num(0))

-----------------------------------------------------------------------------
(* calculate_discount *)

Within(x, lo, hi) == RLeq(lo, x) /\ RLeq(x, hi)

\* original_price >= 0 and 0 <= discount_percentage <= 100
DiscountInRange ==
    /\ RLeq(Num(0), v_args.original_price)
    /\ Within(v_args.discount_percentage, Num(0), Num(100))

\* C15 as stated: discount_amount is original_price * discount_percentage /
\* 100, discounted_price is original_price - discount_amount, the two always
\* sum to original_price, and both lie in [0, original_price] for a price
\* >= 0 and a percentage in [0, 100].
C15_DiscountSplitsPrice ==
    Called("calculate_discount") =>
        LET p == v_args.original_price
            r == v_result
        IN  /\ r.raised = ""
            /\ r.value.discount_amount
                = FDiv(FMul(p, v_args.discount_percentage), Num(100))
            /\ r.value.discounted_price = FSub(p, r.value.discount_amount)
            /\ FAdd(r.value.discounted_price, r.value.discount_amount) = p
            /\ DiscountInRange =>
                /\ Within(r.value.discount_amount, Num(0), p)
                /\ Within(r.value.discounted_price, Num(0), p)

\* the two results add up to the price without rounding
SplitExact(p, pct) ==
    LET amount == RDivInt(RMul(p, pct), 100)
    IN  Fl(RDivInt(pct, 100)) = RDivInt(pct, 100) /\ Fl(amount) = amount
            /\ Fl(RSub(p, amount)) = RSub(p, amount)

\* C15 (amended): discount_amount is original_price * (discount_percentage /
\* 100), discounted_price is original_price - discount_amount, both lie in
\* [0, original_price] for a price >= 0 and a percentage in [0, 100], and the
\* two sum to original_price when no operation rounds.
C15_DiscountUpToRounding ==
    Called("calculate_discount") =>
        LET p == v_args.original_price
            r == v_result
        IN  /\ r.raised = ""
            /\ r.value.discount_amount
                = FMul(p, FDiv(v_args.discount_percentage, Num(100)))
            /\ r.value.discounted_price = FSub(p, r.value.discount_amount)
            /\ SplitExact(p, v_args.discount_percentage) =>
                /\ r.value.discount_amount
                    = RDivInt(RMul(p, v_args.discount_percentage), 100)
                /\ RAdd(r.value.discounted_price, r.value.discount_amount) = p
            /\ DiscountInRange =>
                /\ Within(r.value.discount_amount, Num(0), p)
                /\ Within(r.value.discounted_price, Num(0), p)

\* a discount of a positive price, strictly between nothing and everything
C15_Witness ==
    /\ Called("calculate_discount")
    /\ DiscountInRange
    /\ RLess(Num(0), v_result.value.discount_amount)
    /\ RLess(Num(0), v_result.value.discounted_price)
    /\ ~SplitExact(v_args.original_price, v_args.discount_percentage)

-----------------------------------------------------------------------------
(* calculate_revenue *)

IsZero(x) == x = Num(0)

\* C16 as stated: calculate_revenue equals price * quantity for every numeric
\* price and every quantity, and is 0 whenever price or quantity is 0.
C16_RevenueIsProduct ==
    Called("calculate_revenue") =>
        /\ v_result.raised = ""
        /\ v_result.value = FMul(v_args.price, v_args.quantity)
        /\ IsZero(v_args.price) \/ IsZero(v_args.quantity) => IsZero(v_result.value)

\* the whole number obtained by dropping the fraction of q
TowardZero(q) ==
    CHOOSE k \in (0 - Abs(q.n))..Abs(q.n) :
        /\ k * q.n >= 0
        /\ Abs(k) * q.d <= Abs(q.n)
        /\ Abs(q.n) < (Abs(k) + 1) * q.d

\* C16 (amended): calculate_revenue equals price * quantity for every price
\* and every whole quantity; the fraction of any other quantity is dropped
\* before the multiplication; the result is 0 whenever price or quantity is 0.
C16_RevenueOfWholeQuantity ==
    Called("calculate_revenue") =>
        /\ v_result.raised = ""
        /\ v_args.quantity.d = 1 => v_result.value = FMul(v_args.price, v_args.quantity)
        /\ v_result.value = FMul(v_args.price, Num(TowardZero(v_args.quantity)))
        /\ IsZero(v_args.price) \/ IsZero(v_args.quantity) => IsZero(v_result.value)

\* a price charged for two and a half units
C16_Witness ==
    /\ Called("calculate_revenue")
    /\ v_args.quantity = Rat(5, 2)
    /\ RLess(Num(0), v_args.price)
    /\ v_result.value = FMul(v_args.price, Num(2))

-----------------------------------------------------------------------------
(* calculate_growth_rate *)

\* C17: for old_value # 0 the result is (new - old) / old * 100, which for
\* old_value > 0 is positive, negative or 0 as new_value is above, below or
\* equal to old_value; for old_value = 0 nothing is raised and the result is
\* 0.0 when new_value is 0 and infinity otherwise.
C17_GrowthRate ==
    Called("calculate_growth_rate") =>
        LET old == v_args.old_value
            new == v_args.new_value
            r == v_result
        IN  /\ r.raised = ""
            /\ ~IsZero(old) =>
                r.value = FMul(FDiv(FSub(new, old), old), Num(100))
            /\ RLess(Num(0), old) =>
                /\ RLess(old, new) => RLess(Num(0), r.value)
                /\ RLess(new, old) => RLess(r.value, Num(0))
                /\ new = old => IsZero(r.value)
            /\ IsZero(old) =>
                r.value = IF IsZero(new) THEN Num(0) ELSE Infinity

\* growth from nothing to something
C17_Witness ==
    /\ Called("calculate_growth_rate")
    /\ IsZero(v_args.old_value)
    /\ RLess(Num(0), v_args.new_value)
    /\ v_result = Val(Infinity)

-----------------------------------------------------------------------------
(* DataValidator.validate_record *)

RECURSIVE DecimalChars(_)
DecimalChars(n) ==
    IF n < 0 THEN <<"-">> \o DecimalChars(0 - n)
    ELSE IF n < 10 THEN <<<<"0", "1", "2", "3", "4", "5", "6", "7", "8", "9">>[n + 1]>>
    ELSE DecimalChars(n \div 10) \o DecimalChars(n % 10)

\* str(x) for the values a cell can hold
StrOf(x) == IF x.t = "str" THEN x.s ELSE DecimalChars(x.i)

\* pd.isna(x)
IsNa(x) == x.t = "None" \/ (x.t = "float" /\ x.f = FNaN)

\* (mutant) an empty string counts as a value
MissingUnlessEmpty(record, field) == field \notin DOMAIN record \/ IsNa(record[field])

\* field not in record or pd.isna(record[field]) or record[field] == ''
Missing(record, field) ==
    \/ field \notin DOMAIN record
    \/ IsNa(record[field])
    \/ record[field] = PyStr(<<>>)

Message(text, value) == [text |-> text, value |-> value]

FieldName(field) == [t |-> "field", name |-> field]

\* the loop over config['required_fields']
RECURSIVE RequiredFieldErrors(_, _)
RequiredFieldErrors(fields, record) ==
    IF fields = <<>> THEN <<>>
    ELSE (IF Missing(record, Head(fields))
          THEN <<Message("Missing required field", FieldName(Head(fields)))>>
          ELSE <<>>) \o RequiredFieldErrors(Tail(fields), record)

North == <<"N", "o", "r", "t", "h">>

South == <<"S", "o", "u", "t", "h">>

East == <<"E", "a", "s", "t">>

West == <<"W", "e", "s", "t">>

DataValidator_get_default_config ==
    [price_min |-> 0, price_max |-> 1000000, quantity_min |-> 1, quantity_max |-> 10000,
     valid_regions |-> <<PyStr(North), PyStr(South), PyStr(East), PyStr(West)>>,
     required_fields |-> <<"product", "price", "quantity", "customer_id", "region">>,
     high_value_threshold |-> 500000]

\* a < b and a > b between a cell and a number of the configuration raise
\* TypeError when the cell holds text
Comparable(x) == x.t = "int"

PriceErrors(cfg, price) ==
    IF price.i < cfg.price_min THEN <<Message("Price below minimum", price)>>
    ELSE IF price.i > cfg.price_max THEN <<Message("Price above maximum", price)>>
    ELSE <<>>

QuantityErrors(cfg, quantity) ==
    IF quantity.i < cfg.quantity_min THEN <<Message("Quantity below minimum", quantity)>>
    ELSE <<>>

QuantityWarnings(cfg, quantity) ==
    IF quantity.i >= cfg.quantity_min /\ quantity.i > cfg.quantity_max
    THEN <<Message("Unusually high quantity", quantity)>>
    ELSE <<>>

RegionErrors(cfg, region) ==
    IF region \notin Range(cfg.valid_regions) THEN <<Message("Invalid region", region)>>
    ELSE <<>>

\* a * b > limit, computed without forming the product (limit >= 0)
ProductAbove(a, b, limit) ==
    IF b > 0 THEN a > limit \div b
    ELSE IF b < 0 THEN 0 - a > limit \div (0 - b)
    ELSE 0 > limit

\* revenue = price * quantity, kept as its two factors
Revenue(price, quantity) == [t |-> "product", price |-> price.i, quantity |-> quantity.i]

RevenueWarnings(cfg, price, quantity) ==
    IF ProductAbove(price.i, quantity.i, cfg.high_value_threshold)
    THEN <<Message("High-value order", Revenue(price, quantity))>>
    ELSE <<>>

ProductErrors(record) ==
    LET product == StrStrip(StrOf(record.product))
    IN  IF Len(product) < 2 THEN <<Message("Product name too short", PyNone)>> ELSE <<>>

\* (mutant) both defects are needed for an error
CustomerIdErrorsBoth(record) ==
    LET customer_id == StrStrip(StrOf(record.customer_id))
    IN  IF ~StartsWith(customer_id, <<"C">>) /\ Len(customer_id) < 4
        THEN <<Message("Invalid customer ID format", PyStr(customer_id))>>
        ELSE <<>>

CustomerIdErrors(record) ==
    LET customer_id == StrStrip(StrOf(record.customer_id))
    IN  IF ~StartsWith(customer_id, <<"C">>) \/ Len(customer_id) < 4
        THEN <<Message("Invalid customer ID format", PyStr(customer_id))>>
        ELSE <<>>

Verdict(is_valid, errors, warnings) ==
    [raised |-> "", is_valid |-> is_valid, errors |-> errors, warnings |-> warnings]

Throws(exc) == [raised |-> exc, is_valid |-> FALSE, errors |-> <<>>, warnings |-> <<>>]

validate_record(cfg, record) ==
    LET missing == RequiredFieldErrors(cfg.required_fields, record)
    IN  IF missing # <<>> THEN Verdict(FALSE, missing, <<>>)
        ELSE IF ~Comparable(record.price) \/ ~Comparable(record.quantity)
        THEN Throws("TypeError")
        ELSE LET errors == PriceErrors(cfg, record.price)
                               \o QuantityErrors(cfg, record.quantity)
                               \o RegionErrors(cfg, record.region)
                               \o ProductErrors(record)
                               \o CustomerIdErrors(record)
                 warnings == QuantityWarnings(cfg, record.quantity)
                                 \o RevenueWarnings(cfg, record.price, record.quantity)
             IN  Verdict(Len(errors) = 0, errors, warnings)

\* a configuration with narrower limits
StrictConfig ==
    [DataValidator_get_default_config EXCEPT
        !.price_min = 1000, !.price_max = 100000, !.quantity_min = 2, !.quantity_max = 500,
        !.valid_regions = <<PyStr(North)>>, !.high_value_threshold = 1000000]

ValidatorConfigs == {DataValidator_get_default_config, StrictConfig}

Fields == {"product", "price", "quantity", "customer_id", "region"}

CellValues ==
    [product |-> {PyStr(<<"a", "b">>), PyStr(<<" ", "a">>), PyStr(<<>>), PyInt(7)},
     price |-> {PyInt(0 - 500), PyInt(1500), PyInt(1200000), PyFloat(FNaN), PyStr(<<"a">>)},
     quantity |-> {PyInt(0), PyInt(400), PyInt(15000), PyNone, PyStr(<<"2">>)},
     customer_id |-> {PyStr(<<"C", "0", "0", "1">>), PyStr(<<" ", "C", "0", "0", "1">>),
                      PyStr(<<"C", "0", "1">>), PyStr(<<"X", "0", "0", "1">>), PyInt(1234)},
     region |-> {PyStr(West), PyStr(<<"M", "a", "r", "s">>), PyFloat(FNaN)}]

\* the dicts given to validate_record: every field, or all but one
RecordsOver(fields) == {r \in [fields -> UNION {CellValues[f] : f \in Fields}] :
                            \A f \in fields : r[f] \in CellValues[f]}

Records == RecordsOver(Fields) \cup UNION {RecordsOver(Fields \ {f}) : f \in Fields}

InitRecord ==
    /\ v_pc = "call"
    /\ v_args \in [fn : {"validate_record"}, config : ValidatorConfigs, record : Records]
    /\ v_result = <<>>

Validate_record ==
    Returns("validate_record", validate_record(v_args.config, v_args.record))

NextRecord == Validate_record

StartRecord == InitRecord /\ OnlyVal

SpecRecord == StartRecord /\ [][NextRecord]_vars

-----------------------------------------------------------------------------
(* validate_record: required fields *)

\* the field is absent from the record, missing (NaN, None) or the empty string
Lacks(record, field) ==
    \/ field \notin DOMAIN record
    \/ record[field] \in {PyNone, PyFloat(FNaN), PyStr(<<>>)}

Lacking(cfg, record) == {f \in Range(cfg.required_fields) : Lacks(record, f)}

\* C19: when a required field is absent, missing or empty, validate_record
\* returns an invalid result whose errors are exactly one 'Missing required
\* field' message per such field, with no warnings, and no other check is
\* evaluated.
C19_MissingFieldsReturnEarly ==
    (Called("validate_record") /\ Lacking(v_args.config, v_args.record) # {}) =>
        LET lacking == Lacking(v_args.config, v_args.record)
            r == v_result
        IN  /\ r.raised = ""
            /\ ~r.is_valid
            /\ r.warnings = <<>>
            /\ \A f \in lacking :
                Cardinality({i \in DOMAIN r.errors :
                    r.errors[i] = Message("Missing required field", FieldName(f))}) = 1
            /\ \A i \in DOMAIN r.errors :
                /\ r.errors[i].text = "Missing required field"
                /\ r.errors[i].value \in {FieldName(f) : f \in lacking}

\* a record without a region, without a quantity, and with a price that no
\* comparison accepts
C19_Witness ==
    /\ Called("validate_record")
    /\ "region" \notin DOMAIN v_args.record
    /\ v_args.record.quantity = PyNone
    /\ v_args.record.price = PyStr(<<"a">>)
    /\ Len(v_result.errors) = 2

-----------------------------------------------------------------------------
(* validate_record: errors and warnings *)

Texts(messages) == {messages[i].text : i \in DOMAIN messages}

\* the record passed the required-field check and every check was evaluated
Judged == Called("validate_record") /\ Lacking(v_args.config, v_args.record) = {}
              /\ v_result.raised = ""

\* what the claim says of price, quantity, region, revenue and product name
FieldRules(cfg, record, r) ==
    /\ r.is_valid <=> r.errors = <<>>
    /\ Texts(r.errors) \cap {"Unusually high quantity", "High-value order"} = {}
    /\ record.quantity.i > cfg.quantity_max =>
        /\ "Unusually high quantity" \in Texts(r.warnings)
        /\ "Quantity below minimum" \notin Texts(r.errors)
    /\ ProductAbove(record.price.i, record.quantity.i, cfg.high_value_threshold) =>
        "High-value order" \in Texts(r.warnings)
    /\ record.price.i < cfg.price_min => "Price below minimum" \in Texts(r.errors)
    /\ record.price.i > cfg.price_max => "Price above maximum" \in Texts(r.errors)
    /\ record.quantity.i < cfg.quantity_min => "Quantity below minimum" \in Texts(r.errors)
    /\ (\A i \in DOMAIN cfg.valid_regions : cfg.valid_regions[i] # record.region)
        => "Invalid region" \in Texts(r.errors)
    /\ Len(StrOf(record.product)) < 2 => "Product name too short" \in Texts(r.errors)

\* the customer ID does not start with 'C' or is shorter than 4 characters
IllFormedId(id) == id = <<>> \/ id[1] # "C" \/ Len(id) < 4

Trimmed(s) ==
    LET inner == {i \in DOMAIN s : s[i] # " "}
    IN  IF inner = {} THEN <<>>
        ELSE SubSeq(s, CHOOSE i \in inner : \A j \in inner : i <= j,
                       CHOOSE i \in inner : \A j \in inner : j <= i)

-----------------------------------------------------------------------------
(* DataValidator.validate_dataframe *)

GoodRow ==
    [product |-> PyStr(<<"a", "b">>), price |-> PyInt(1500), quantity |-> PyInt(400),
     customer_id |-> PyStr(<<"C", "0", "0", "1">>), region |-> PyStr(West)]

\* the rows of the frames: in order, one with a warning, two errors, an
\* empty product, a missing price, a price read as text
FrameRows ==
    {GoodRow,
     [GoodRow EXCEPT !.price = PyInt(0 - 500), !.region = PyStr(<<"M", "a", "r", "s">>)],
     [GoodRow EXCEPT !.product = PyStr(<<>>)],
     [GoodRow EXCEPT !.price = PyFloat(FNaN)],
     [GoodRow EXCEPT !.price = PyStr(<<"a">>)]}

Frames == UNION {[1..n -> FrameRows] : n \in 0..MaxFrameRows}

\* DataValidator(): the default configuration and empty results
InitDv ==
    /\ validation_results = [total_records |-> 0, valid_records |-> 0,
                             invalid_records |-> 0, errors |-> <<>>, warnings |-> <<>>]
    /\ d_pc = "idle"
    /\ d_df = <<>>
    /\ d_row = 0
    /\ valid_records = <<>>
    /\ invalid_records = <<>>
    /\ d_calls = <<>>
    /\ d_result = <<>>

Ended(d, outcome) == [d EXCEPT ![Len(d)].outcome = outcome]

\* validate_dataframe(df) up to the loop
validate_dataframe_call ==
    /\ d_pc = "idle"
    /\ Len(d_calls) < MaxValidations
    /\ \E frame \in Frames : d_df' = frame
    /\ d_row' = 0
    /\ valid_records' = <<>>
    /\ invalid_records' = <<>>
    /\ d_calls' = Append(d_calls, [mark |-> Len(validation_results.errors),
                                   outcome |-> "running"])
    /\ d_pc' = "loop"
    /\ UNCHANGED <<validation_results, d_result>>
    /\ UNCHANGED notDv

Logged(record_num, key, messages) ==
    [i \in DOMAIN messages |-> [record_num |-> record_num, kind |-> key, text |-> messages[i]]]

\* one pass of the loop over df.iterrows()
validate_dataframe_row ==
    /\ d_pc = "loop"
    /\ d_row < Len(d_df)
    /\ LET row == d_df[d_row + 1]
           record_num == d_row + 1
           counted == [validation_results EXCEPT !.total_records = @ + 1]
           v == validate_record(DataValidator_get_default_config, row)
       IN  IF v.raised # ""
           THEN /\ validation_results' = counted
                /\ d_calls' = Ended(d_calls, v.raised)
                /\ d_pc' = "idle"
                /\ UNCHANGED <<valid_records, invalid_records>>
           ELSE IF v.is_valid
           THEN /\ validation_results' =
                    [counted EXCEPT !.valid_records = @ + 1,
                                    !.warnings = @ \o Logged(record_num, "warning", v.warnings)]
                /\ valid_records' = Append(valid_records, [row |-> row])
                /\ UNCHANGED <<invalid_records, d_calls, d_pc>>
           ELSE /\ validation_results' =
                    [counted EXCEPT !.invalid_records = @ + 1,
                                    !.errors = @ \o Logged(record_num, "error", v.errors)]
                /\ invalid_records' = Append(invalid_records,
                        [row |-> row, record_num |-> record_num, errors |-> v.errors])
                /\ UNCHANGED <<valid_records, d_calls, d_pc>>
    /\ d_row' = d_row + 1
    /\ UNCHANGED <<d_df, d_result>>
    /\ UNCHANGED notDv

\* the tables are built, print_report prints, the call returns
validate_dataframe_return ==
    /\ d_pc = "loop"
    /\ d_row = Len(d_df)
    /\ d_result' = [valid_df |-> valid_records, invalid_df |-> invalid_records,
                    report |-> validation_results]
    /\ d_calls' = Ended(d_calls, "returned")
    /\ d_pc' = "idle"
    /\ UNCHANGED <<validation_results, d_df, d_row, valid_records, invalid_records>>
    /\ UNCHANGED notDv

NextDv ==
    \/ validate_dataframe_call
    \/ validate_dataframe_row
    \/ validate_dataframe_return

StartDv == InitDv /\ OnlyDv

SpecDv == StartDv /\ [][NextDv]_vars

-----------------------------------------------------------------------------
(* validate_dataframe: counters and tables *)

CountersAgree ==
    validation_results.total_records
        = validation_results.valid_records + validation_results.invalid_records

LastReturned == d_pc = "idle" /\ d_calls # <<>> /\ d_calls[Len(d_calls)].outcome = "returned"

NoErrors(row) == validate_record(DataValidator_get_default_config, row).errors = <<>>

\* the positions of the frame whose rows have no errors
Clean == {i \in DOMAIN d_df : NoErrors(d_df[i])}

\* the k-th element of a set of numbers, in increasing order
Nth(S, k) == CHOOSE i \in S : Cardinality({j \in S : j < i}) = k - 1

\* the tables of the last call hold the rows of the frame, each in one table
RowsPartitioned ==
    LET valid_df == d_result.valid_df
        invalid_df == d_result.invalid_df
        dirty == DOMAIN d_df \ Clean
    IN  /\ Len(valid_df) + Len(invalid_df) = Len(d_df)
        /\ Len(valid_df) = Cardinality(Clean)
        /\ \A k \in DOMAIN valid_df : valid_df[k].row = d_df[Nth(Clean, k)]
        /\ \A k \in DOMAIN invalid_df :
            /\ invalid_df[k].row = d_df[Nth(dirty, k)]
            /\ invalid_df[k].record_num = Nth(dirty, k)

\* the errors logged by the last call name rows of its invalid table
ErrorsNameInvalidRows ==
    LET log == d_result.report.errors
        invalid_df == d_result.invalid_df
    IN  \A i \in DOMAIN log :
            i > d_calls[Len(d_calls)].mark =>
                \E k \in DOMAIN invalid_df : invalid_df[k].record_num = log[i].record_num

\* C18: after any sequence of validate_dataframe calls total_records =
\* valid_records + invalid_records; within a call every row of the frame is
\* in exactly one of the valid and invalid tables, in the valid one exactly
\* when validate_record reported no errors, and every error logged names a
\* row of the invalid table.
C18_CountersAndTablesConsistent ==
    /\ d_pc = "idle" => CountersAgree
    /\ LastReturned => RowsPartitioned /\ ErrorsNameInvalidRows

-----------------------------------------------------------------------------
(* DataPipeline.run: the order of the stages and the saves *)

Stage(name) == {i \in DOMAIN p_log : p_log[i].stage = name}

\* transform_data has returned a mapping with at least one source
TransformedSome ==
    \E i \in Stage("transform_data") : p_log[i].ret = "dict" /\ data_sources # <<>>

NothingWritten == s3_objects = {} /\ saved = {}

StagesInOrder ==
    /\ \/ IsPrefix(StageNames, StagesWithSaves)
       \/ IsPrefix(StageNames, StagesWithoutSaves)
    /\ p_pc \in {"save_to_s3", "save_locally"} => TransformedSome
    /\ Stage("save_to_s3") \cup Stage("save_locally") # {} => TransformedSome
    /\ Stage("save_locally") # {} => Stage("save_to_s3") # {}
    /\ (Stage("transform_data") # {} /\ ~TransformedSome) =>
           /\ Stage("save_to_s3") \cup Stage("save_locally") = {}
           /\ p_pc \in {"print_summary", "done"}
           /\ NothingWritten
    /\ p_pc = "done" => p_log[Len(p_log)].stage = "print_summary"

\* C21: run calls fetch_api_data, fetch_database_data, read_file_data and
\* transform_data in this order; save_to_s3 and then save_locally are called
\* only when transform_data returned a non-empty mapping; when data_sources is
\* empty or transform_data failed no save stage is called and nothing is
\* written; the run always finishes with print_summary.
C21_SavesOnlyAfterTransform == []StagesInOrder /\ <>(p_pc = "done")

\* a run whose sources gave data, whose transform_data failed, and which
\* ended with print_summary having saved nothing
C21_Witness ==
    /\ p_pc = "done"
    /\ data_sources # <<>>
    /\ transformed.none
    /\ StageNames = StagesWithoutSaves
    /\ NothingWritten

-----------------------------------------------------------------------------
(* APIClient._make_request: HTTP errors and the ways a call ends *)

\* C22: an HTTP error status is never retried: the request that met it is the
\* last event of the call, no wait and no request follows it, and its error
\* is raised to the caller, whatever the attempt.
C22_HttpErrorNotRetried ==
    \A i \in 1..Len(a_events) :
        (a_events[i].kind = "request" /\ a_events[i].outcome = "HTTPError") =>
            /\ i = Len(a_events)
            /\ a_pc = "raised"
            /\ a_result = [kind |-> "HTTPError", k |-> a_events[i].k]

\* an error status on the second of four allowed requests
C22_Witness ==
    /\ a_pc = "raised"
    /\ max_retries = 4
    /\ Requests(a_events) = 2
    /\ a_events[1].outcome = "Timeout"
    /\ a_events[Len(a_events)].outcome = "HTTPError"

\* C23: for every max_retries, 0 included, a call ends either by returning
\* the data of a successful request or by raising the error of the last
\* failed request; it never returns without a successful response.
C23_ReturnsDataOrRaises ==
    ApiEnded =>
        /\ a_events # <<>>
        /\ LET last == a_events[Len(a_events)]
           IN  /\ last.kind = "request"
               /\ a_result = [kind |-> last.outcome, k |-> last.k]
               /\ a_pc = "returned" <=> last.outcome \in {"json", "text"}
               /\ a_pc = "raised" <=> last.outcome \notin {"json", "text"}

-----------------------------------------------------------------------------
(* DataCleaningPipeline.remove_duplicates *)

\* the calls of a step made so far that returned
CallsOf(step) == {k \in DOMAIN calls : calls[k].step = step /\ ~calls[k].raised}

\* the positions of the rows that no earlier row equals
FirstOccurrences(rows) == {i \in DOMAIN rows : \A j \in 1..(i - 1) : rows[j] # rows[i]}

DefaultDuplicates == config.subset = "all" /\ config.keep = "first"

\* C24: with the default configuration remove_duplicates returns a table
\* without two equal rows, made of the first occurrence of every distinct row
\* of its input in the input's order; the logged 'removed' count is rows
\* before minus rows after; applied to its own output it removes nothing.
C24_RemoveDuplicatesKeepsFirst ==
    (pc = "free" /\ DefaultDuplicates) =>
        \A k \in CallsOf("remove_duplicates") :
            LET in == calls[k].argval.rows
                out == heap[calls[k].ret].rows
                first == FirstOccurrences(in)
                logged == cleaning_report.steps[k].details
            IN  /\ \A i, j \in DOMAIN out : i # j => out[i] # out[j]
                /\ Len(out) = Cardinality(first)
                /\ \A i \in DOMAIN out : out[i] = in[Nth(first, i)]
                /\ logged.removed = Len(in) - Len(out)
                /\ logged.before = Len(in)
                /\ logged.after = Len(out)
                /\ (k + 1 \in CallsOf("remove_duplicates")) =>
                       /\ calls[k + 1].arg = calls[k].ret
                       /\ heap[calls[k + 1].ret].rows = out
                       /\ cleaning_report.steps[k + 1].details.removed = 0

\* the step applied twice to a table whose duplicates alternate with other
\* rows: two rows removed, then none
C24_Witness ==
    /\ pc = "free"
    /\ DefaultDuplicates
    /\ CallsOf("remove_duplicates") = {1, 2}
    /\ Len(calls[1].argval.rows) = 4
    /\ cleaning_report.steps[1].details.removed = 2
    /\ cleaning_report.steps[2].details.removed = 0

-----------------------------------------------------------------------------
(* DataCleaningPipeline.handle_missing_values *)

\* the value the claim gives a missing numeric cell
NumericFill(col, cfg) ==
    CASE cfg.numeric_strategy = "mean" -> Mean(col)
      [] cfg.numeric_strategy = "median" -> Median(col)
      [] OTHER -> Num(0)

\* the value the claim gives a missing text cell
TextFill(col, cfg) ==
    IF cfg.categorical_strategy = "mode" /\ Mode(col) # {}
    THEN Str(ModeFirst(col))
    ELSE Unknown

\* C25: after handle_missing_values no numeric and no text (object) column
\* holds a missing value: a missing number is replaced by the mean or median
\* of the column's other values (0 for another strategy), a missing text by
\* the column's most frequent value ('Unknown' when there is none or the
\* strategy is not 'mode'), the other cells keep their values, and the
\* logged 'filled' count is missing-before minus missing-after.
C25_MissingValuesFilled ==
    pc = "free" =>
        \A k \in CallsOf("handle_missing_values") :
            LET in == calls[k].argval
                out == heap[calls[k].ret]
                logged == cleaning_report.steps[k].details
            IN  /\ Len(out.rows) = Len(in.rows)
                /\ \A i \in DOMAIN out.rows : ~IsNaN(out.rows[i].num)
                /\ in.tdt = "object" => \A i \in DOMAIN out.rows : ~out.rows[i].txt.none
                /\ \A i \in DOMAIN in.rows :
                       /\ out.rows[i].num = IF IsNaN(in.rows[i].num)
                                            THEN NumericFill(NumCol(in), config)
                                            ELSE in.rows[i].num
                       /\ in.tdt = "object" =>
                              out.rows[i].txt = IF in.rows[i].txt.none
                                                THEN TextFill(TxtCol(in), config)
                                                ELSE in.rows[i].txt
                /\ logged.filled = MissingCount(in) - MissingCount(out)

-----------------------------------------------------------------------------
(* DataCleaningPipeline.handle_outliers *)

\* Q1 - t*IQR and Q3 + t*IQR of a column, t the configured threshold
LowerBound(col, t) ==
    RSub(Quantile(col, 1), RMul(t, RSub(Quantile(col, 3), Quantile(col, 1))))

UpperBound(col, t) ==
    RAdd(Quantile(col, 3), RMul(t, RSub(Quantile(col, 3), Quantile(col, 1))))

\* the present values of a column that lie outside the bounds
Outside(col, t) ==
    {i \in DOMAIN col : /\ ~IsNaN(col[i])
                        /\ \/ RLess(col[i], LowerBound(col, t))
                           \/ RLess(UpperBound(col, t), col[i])}

\* C26: after handle_outliers with method 'iqr' and threshold t every value
\* of the numeric column lies within [Q1 - t*IQR, Q3 + t*IQR] of the step's
\* input: values inside are unchanged, values outside become the nearer
\* bound, the row count is unchanged, and the count logged for the column
\* is the number of input values outside the bounds.
C26_OutliersCappedToBounds ==
    (pc = "free" /\ config.method = "iqr") =>
        \A k \in CallsOf("handle_outliers") :
            LET in == NumCol(calls[k].argval)
                out == NumCol(heap[calls[k].ret])
                t == config.threshold
                logged == cleaning_report.steps[k].details
            IN  /\ Len(out) = Len(in)
                /\ \A i \in DOMAIN in :
                       /\ IsNaN(in[i]) => IsNaN(out[i])
                       /\ ~IsNaN(in[i]) =>
                              /\ RLeq(LowerBound(in, t), out[i])
                              /\ RLeq(out[i], UpperBound(in, t))
                       /\ i \notin Outside(in, t) => out[i] = in[i]
                       /\ (~IsNaN(in[i]) /\ RLess(in[i], LowerBound(in, t))) =>
                              out[i] = LowerBound(in, t)
                       /\ (~IsNaN(in[i]) /\ RLess(UpperBound(in, t), in[i])) =>
                              out[i] = UpperBound(in, t)
                /\ "amount" \in DOMAIN logged =>
                       logged.amount = Cardinality(Outside(in, t))

\* a call capped the one value above the upper bound to that bound, left
\* the values inside the bounds alone and logged one outlier
C26_Witness ==
    /\ pc = "free" /\ config.method = "iqr"
    /\ \E k \in CallsOf("handle_outliers") :
           LET in == NumCol(calls[k].argval)
               out == NumCol(heap[calls[k].ret])
           IN  /\ \E i \in DOMAIN in :
                      /\ RLess(UpperBound(in, config.threshold), in[i])
                      /\ out[i] = UpperBound(in, config.threshold)
               /\ \E i \in DOMAIN in : i \notin Outside(in, config.threshold)
               /\ cleaning_report.steps[k].details = [amount |-> 1]

-----------------------------------------------------------------------------
(* DataPipeline.fetch_database_data: the connection it opens *)

\* C28: every connection fetch_database_data opens is closed before the
\* method returns, on success and on every failure path, the query raising
\* after connect succeeded included: a successful connect is eventually
\* followed by a disconnect.
C28_ConnectionEventuallyClosed ==
    /\ [](Stage("fetch_database_data") # {} => db_conn # "open")
    /\ [](db_conn = "open" => <>(db_conn = "closed"))

-----------------------------------------------------------------------------
(* The cache_result decorator *)

\* argument values: the int 1, the float 1.0, the int 2 and the string '1'
ArgValues ==
    {[type |-> "int", v |-> 1], [type |-> "float", v |-> 1], [type |-> "int", v |-> 2],
     [type |-> "str", v |-> 1]}

\* Python's ==, which the dict uses on keys with equal hashes: numbers of
\* different types are equal when their values are
ValueEq(x, y) == x.v = y.v /\ ((x.type = "str") <=> (y.type = "str"))

\* == on tuples
TupleEq(a, b) == Len(a) = Len(b) /\ \A i \in DOMAIN a : ValueEq(a[i], b[i])

\* args in cache
InCache(c, args) == \E i \in DOMAIN c : TupleEq(c[i].key, args)

\* cache[args], for args in cache
Cached(c, args) == c[CHOOSE i \in DOMAIN c : TupleEq(c[i].key, args)].value

\* (mutant) the result is returned without being stored
StoreNothing(c, args, result) == c

\* cache[args] = result, for args not in cache
Store(c, args, result) == Append(c, [key |-> args, value |-> result])

\* the positional arguments of the calls
ArgTuples ==
    {<<>>} \cup {<<x>> : x \in ArgValues} \cup {<<[type |-> "int", v |-> 1], [type |-> "int", v |-> 2]>>}

\* what one invocation of the wrapped function does: it need not be pure
FuncOutcomes == {"a", "b", "raise"}

\* @cache_result def func(...)
InitCache ==
    /\ cache = <<>>
    /\ c_calls = <<>>

\* wrapper(*args), with what func would do if it is invoked
cache_result_wrapper(args, outcome) ==
    /\ Len(c_calls) < MaxCacheCalls
    /\ IF InCache(cache, args)
       THEN /\ c_calls' = Append(c_calls, [args |-> args, invoked |-> FALSE,
                                           raised |-> FALSE, ret |-> Cached(cache, args),
                                           stored |-> Len(cache)])
            /\ UNCHANGED cache
       ELSE IF outcome = "raise"
       THEN /\ c_calls' = Append(c_calls, [args |-> args, invoked |-> TRUE,
                                           raised |-> TRUE, ret |-> "",
                                           stored |-> Len(cache)])
            /\ UNCHANGED cache
       ELSE /\ cache' = Store(cache, args, outcome)
            /\ c_calls' = Append(c_calls, [args |-> args, invoked |-> TRUE,
                                           raised |-> FALSE, ret |-> outcome,
                                           stored |-> Len(cache')])
    /\ UNCHANGED notCache

NextCache == \E args \in ArgTuples, outcome \in FuncOutcomes : cache_result_wrapper(args, outcome)

StartCache == InitCache /\ OnlyCache

SpecCache == StartCache /\ [][NextCache]_vars

\* the earlier calls with equal arguments whose invocation returned normally
StoredBefore(j) ==
    {i \in 1..(j - 1) : /\ TupleEq(c_calls[i].args, c_calls[j].args)
                        /\ c_calls[i].invoked /\ ~c_calls[i].raised}

\* C27: the function is invoked at most once per distinct argument tuple for
\* which it returned normally: the first such call stores the result, later
\* calls with equal arguments return the stored value without invoking the
\* function, and a call whose invocation raises stores nothing, so that the
\* next call with those arguments invokes the function again.
C27_CachedOncePerArgs ==
    \A j \in DOMAIN c_calls :
        LET e == c_calls[j]
            before == IF j = 1 THEN 0 ELSE c_calls[j - 1].stored
        IN  /\ e.invoked <=> StoredBefore(j) = {}
            /\ ~e.invoked => /\ ~e.raised
                             /\ \A i \in StoredBefore(j) : e.ret = c_calls[i].ret
            /\ e.stored = IF e.invoked /\ ~e.raised THEN before + 1 ELSE before
            /\ Cardinality(StoredBefore(j)) <= 1

\* a raising call, then the same arguments invoked again and stored, then
\* an equal tuple of another type served from the cache
C27_Witness ==
    /\ Len(c_calls) = 3
    /\ c_calls[1].raised /\ c_calls[1].stored = 0
    /\ c_calls[2].args = c_calls[1].args /\ c_calls[2].invoked /\ ~c_calls[2].raised
    /\ c_calls[3].args # c_calls[2].args /\ ~c_calls[3].invoked
    /\ c_calls[3].ret = c_calls[2].ret

-----------------------------------------------------------------------------
(* S3Manager.upload_dataframe *)

Formats == {"parquet", "csv", "json", "xlsx"}

\* the formats with a branch in upload_dataframe
Supported == {"parquet", "csv", "json"}

\* datetime.now() to the second, as strftime('%Y%m%d_%H%M%S') renders it
Stamps == {1, 2}

S3Keys == {"a", "b"}

\* f"temp_{datetime.now().strftime('%Y%m%d_%H%M%S')}.{format}"
TempFile(stamp, format) == [stamp |-> stamp, ext |-> format]

\* (mutant) the temporary file is left behind
RemoveNothing(fs, f) == fs

\* os.remove(f), for a file that exists
Remove(fs, f) == fs \ {f}

\* a finished call, as its caller and the file system saw it
Finished(c, ret, fs) ==
    [format |-> c.format, temp_file |-> c.temp_file, written |-> c.written,
     attempted |-> c.attempted, uploaded |-> c.success, ret |-> ret,
     files_before |-> c.files_before, files_after |-> fs]

\* S3Manager()
InitS3 ==
    /\ u_pc = "idle"
    /\ u_call = <<>>
    /\ local_files = {}
    /\ bucket = {}
    /\ u_calls = <<>>

\* upload_dataframe(df, s3_key, format) up to the choice of the writer
upload_dataframe(s3_key, format, stamp) ==
    /\ u_pc = "idle"
    /\ Len(u_calls) < MaxUploads
    /\ LET c == [format |-> format, s3_key |-> s3_key,
                 temp_file |-> TempFile(stamp, format), written |-> FALSE,
                 attempted |-> FALSE, success |-> FALSE, files_before |-> local_files]
       IN  IF format \in Supported
           THEN /\ u_call' = c
                /\ u_pc' = "write"
                /\ UNCHANGED u_calls
           ELSE /\ u_calls' = Append(u_calls, Finished(c, FALSE, local_files))
                /\ u_call' = <<>>
                /\ UNCHANGED u_pc
    /\ UNCHANGED <<local_files, bucket>>
    /\ UNCHANGED notS3

\* df.to_parquet / to_csv / to_json(temp_file): it writes the file, or raises
\* before creating it, or raises leaving a part of it; upload_dataframe's
\* except returns False
to_file(outcome) ==
    /\ u_pc = "write"
    /\ IF outcome = "ok"
       THEN /\ local_files' = local_files \cup {u_call.temp_file}
            /\ u_call' = [u_call EXCEPT !.written = TRUE]
            /\ u_pc' = "upload"
            /\ UNCHANGED u_calls
       ELSE /\ local_files' = IF outcome = "partial"
                              THEN local_files \cup {u_call.temp_file}
                              ELSE local_files
            /\ u_calls' = Append(u_calls, Finished(u_call, FALSE, local_files'))
            /\ u_call' = <<>>
            /\ u_pc' = "idle"
    /\ UNCHANGED bucket
    /\ UNCHANGED notS3

\* upload_file(temp_file, s3_key): True after s3_client.upload_file, False
\* when the file is missing or the client raises (or is None)
upload_file(outcome) ==
    /\ u_pc = "upload"
    /\ LET found == u_call.temp_file \in local_files
           ok == found /\ outcome = "ok"
       IN  /\ bucket' = IF ok THEN bucket \cup {u_call.s3_key} ELSE bucket
           /\ u_call' = [u_call EXCEPT !.attempted = TRUE, !.success = ok]
    /\ u_pc' = "remove"
    /\ UNCHANGED <<local_files, u_calls>>
    /\ UNCHANGED notS3

\* os.remove(temp_file); return success.  os.remove raises FileNotFoundError
\* for a missing file, and the except returns False
os_remove ==
    /\ u_pc = "remove"
    /\ IF u_call.temp_file \in local_files
       THEN /\ local_files' = Remove(local_files, u_call.temp_file)
            /\ u_calls' = Append(u_calls, Finished(u_call, u_call.success, local_files'))
       ELSE /\ UNCHANGED local_files
            /\ u_calls' = Append(u_calls, Finished(u_call, FALSE, local_files))
    /\ u_call' = <<>>
    /\ u_pc' = "idle"
    /\ UNCHANGED bucket
    /\ UNCHANGED notS3

NextS3 ==
    \/ \E s3_key \in S3Keys, format \in Formats, stamp \in Stamps :
           upload_dataframe(s3_key, format, stamp)
    \/ \E outcome \in {"ok", "error", "partial"} : to_file(outcome)
    \/ \E outcome \in {"ok", "ClientError", "no_client"} : upload_file(outcome)
    \/ os_remove

StartS3 == InitS3 /\ OnlyS3

SpecS3 == StartS3 /\ [][NextS3]_vars

\* C29: for a supported format, once the table has been written to the
\* temporary file, that file no longer exists when upload_dataframe returns,
\* whether the upload succeeded (True is returned) or failed (False); for an
\* unsupported format it returns False without creating a file and without
\* attempting an upload.
C29_TempFileCleanedUp ==
    \A k \in DOMAIN u_calls :
        LET e == u_calls[k]
        IN  /\ (e.format \in Supported /\ e.written) =>
                   /\ e.temp_file \notin e.files_after
                   /\ e.attempted
                   /\ e.ret = e.uploaded
            /\ e.format \notin Supported =>
                   /\ e.ret = FALSE
                   /\ e.files_after = e.files_before
                   /\ ~e.written /\ ~e.attempted

\* a failed upload and a successful one, each after the file was written,
\* and the bucket holds the one object
C29_Witness ==
    /\ Len(u_calls) = 2
    /\ u_calls[1].written /\ u_calls[1].attempted /\ u_calls[1].ret = FALSE
    /\ u_calls[2].written /\ u_calls[2].ret = TRUE
    /\ Cardinality(bucket) = 1
    /\ local_files = {}

-----------------------------------------------------------------------------
(* DatabaseManager *)

\* 'SELECT 1', ' select 1', 'CALL 9' and the empty statement
Queries ==
    {<<"S", "E", "L", "E", "C", "T", " ", "1">>,
     <<" ", "s", "e", "l", "e", "c", "t", " ", "1">>,
     <<"C", "A", "L", "L", " ", "9">>,
     <<>>}

\* the query of table_exists, as far as execute_query looks at it
ExistsQuery == <<" ", "S", "E", "L", "E", "C", "T", " ", "E">>

\* what fetchall() can return
RowLists == {<<>>, <<<<TRUE>>>>, <<<<FALSE>>>>}

\* query.strip().upper().startswith('SELECT')
IsSelect(query) ==
    IsPrefix(<<"S", "E", "L", "E", "C", "T">>, StrUpper(StrStrip(query)))

\* (mutant) only the errors of the database library are handled
ExecuteCatchesSqlErrors(exc) == exc \in {"ResourceClosedError", "DatabaseError"}

\* except Exception as e, in execute_query
ExecuteCatches(exc) == exc \in {"AttributeError", "ResourceClosedError", "DatabaseError"}

\* the body of execute_query on a connection in state conn: what
\* self.connection.execute, fetchall and commit do, given the database's
\* answer (rows, or "error" for the statement, or "commit_error")
ExecuteBody(conn, query, answer) ==
    LET exc == CASE conn = "None" -> "AttributeError"
                 [] conn = "closed" -> "ResourceClosedError"
                 [] answer.kind = "error" -> "DatabaseError"
                 [] answer.kind = "commit_error" /\ ~IsSelect(query) -> "DatabaseError"
                 [] OTHER -> ""
    IN  [exc |-> exc,
         rows |-> IF exc = "" /\ IsSelect(query) THEN answer.rows ELSE <<>>,
         committed |-> exc = "" /\ ~IsSelect(query)]

\* execute_query(query, params) as its caller sees it
ExecuteQuery(conn, query, answer) ==
    LET b == ExecuteBody(conn, query, answer)
    IN  [raised |-> b.exc # "" /\ ~ExecuteCatches(b.exc), failed |-> b.exc # "",
         ret |-> b.rows, committed |-> b.committed]

Answers ==
    [kind : {"ok"}, rows : RowLists] \cup [kind : {"error", "commit_error"}, rows : {<<>>}]

DbEntry(op, query, answer, r) ==
    [op |-> op, query |-> query, answer |-> answer, raised |-> r.raised,
     failed |-> r.failed, committed |-> r.committed]

\* DatabaseManager(db_config)
InitDb ==
    /\ engine = "None"
    /\ connection = "None"
    /\ db_calls = <<>>

\* connect(): create_engine or engine.connect may raise; both are caught
connect(outcome) ==
    /\ Len(db_calls) < MaxDbCalls
    /\ engine' = IF outcome = "engine_error" THEN engine ELSE "engine"
    /\ connection' = IF outcome = "ok" THEN "open" ELSE connection
    /\ db_calls' = Append(db_calls,
                       [op |-> "connect", ret |-> outcome = "ok", raised |-> FALSE])
    /\ UNCHANGED notDb

\* disconnect(): if self.connection: self.connection.close()
disconnect ==
    /\ Len(db_calls) < MaxDbCalls
    /\ connection' = IF connection = "None" THEN connection ELSE "closed"
    /\ db_calls' = Append(db_calls, [op |-> "disconnect", raised |-> FALSE])
    /\ UNCHANGED engine
    /\ UNCHANGED notDb

execute_query(query, answer) ==
    /\ Len(db_calls) < MaxDbCalls
    /\ LET r == ExecuteQuery(connection, query, answer)
       IN  db_calls' = Append(db_calls,
               DbEntry("execute_query", query, answer, r)
                   @@ [rows |-> r.ret, conn |-> connection])
    /\ UNCHANGED <<engine, connection>>
    /\ UNCHANGED notDb

\* table_exists(table_name): result[0][0] if result else False
table_exists(answer) ==
    /\ Len(db_calls) < MaxDbCalls
    /\ LET r == ExecuteQuery(connection, ExistsQuery, answer)
       IN  db_calls' = Append(db_calls,
               DbEntry("table_exists", ExistsQuery, answer, r)
                   @@ [exists |-> IF r.ret # <<>> THEN r.ret[1][1] ELSE FALSE,
                       conn |-> connection])
    /\ UNCHANGED <<engine, connection>>
    /\ UNCHANGED notDb

NextDb ==
    \/ \E outcome \in {"ok", "engine_error", "connect_error"} : connect(outcome)
    \/ disconnect
    \/ \E query \in Queries, answer \in Answers : execute_query(query, answer)
    \/ \E answer \in [kind : {"ok"}, rows : RowLists \ {<<>>}]
                         \cup [kind : {"error"}, rows : {<<>>}] : table_exists(answer)

StartDb == InitDb /\ OnlyDb

SpecDb == StartDb /\ [][NextDb]_vars

\* the statement's first word is SELECT, in either case
StartsWithSelect(query) ==
    IsPrefix(<<"S", "E", "L", "E", "C", "T">>, StrUpper(LStrip(query)))

\* C30: execute_query never raises, in any order of connect, execute_query
\* and disconnect (before connect and after a failed connect included): it
\* returns the fetched rows for a statement that starts with SELECT, the
\* empty list after committing any other statement, and the empty list when
\* the statement fails; table_exists returns False whenever its query fails.
C30_ExecuteQueryNeverRaises ==
    \A k \in DOMAIN db_calls :
        LET e == db_calls[k]
        IN  /\ ~e.raised
            /\ e.op = "execute_query" =>
                   /\ e.conn # "open" => e.failed
                   /\ e.failed => e.rows = <<>>
                   /\ (~e.failed /\ StartsWithSelect(e.query)) =>
                          e.rows = e.answer.rows /\ ~e.committed
                   /\ (~e.failed /\ ~StartsWithSelect(e.query)) =>
                          e.rows = <<>> /\ e.committed
            /\ e.op = "table_exists" =>
                   /\ e.failed => e.exists = FALSE
                   /\ ~e.failed => e.exists = e.answer.rows[1][1]

\* a query before connect returned the empty list, then connect succeeded
\* and a SELECT returned its rows
C30_Witness ==
    /\ Len(db_calls) = 3
    /\ db_calls[1].op = "execute_query" /\ db_calls[1].conn = "None"
    /\ db_calls[1].rows = <<>> /\ ~db_calls[1].raised
    /\ db_calls[2].op = "connect" /\ db_calls[2].ret
    /\ db_calls[3].op = "execute_query" /\ db_calls[3].rows # <<>>
    /\ ~db_calls[3].failed

====
